---- MODULE Spec2Model ----
(***************************************************************************)
(* Model of the NMM import extension: the file transfer engine             *)
(* (transferUnpackedMod, two revisions), the legacy path resolution, the   *)
(* manifest parser (parseNMMConfigFile / parseModEntries, two revisions),  *)
(* the orchestration of an import run (importMods with enhance and         *)
(* makeVortexCategory) and the steps of the import dialog (two revisions). *)
(*                                                                         *)
(* Strings are sequences of one-character strings, so that indexOf,        *)
(* substring, path.join, path.dirname and path.isAbsolute are computed     *)
(* character by character as the code computes them.  Sep stands for       *)
(* path.sep.  The path helpers do not interpret "." and ".." segments;     *)
(* no path used below has such a segment.                                  *)
(***************************************************************************)
EXTENDS Integers, Sequences, FiniteSets, TLC

VARIABLES
    \* ---- transferUnpackedMod ------------------------------------------
    variant,              \* which revision of transferUnpackedMod runs
    mod,                  \* the IModEntry being transferred
    nmmLinkPath,          \* fallback root, <<>> when not configured
    keepSource,           \* copy (TRUE) or move (FALSE)
    dirs,                 \* directories existing on disk
    files,                \* files existing on disk (full paths)
    pc,                   \* position of the transferUnpackedMod promise chain
    fpc,                  \* position of each file's mapper promise
    ops,                  \* per file: the copy/move operations issued so far
    hasTransferredFiles,  \* the closure variable of the same name
    errors,               \* the closure variable of the same name
    \* ---- path resolution as a pure function ---------------------------
    rsInput,              \* [fileSource, fileDestination, modName, downloadId]
    rsOutput,             \* "none" before the call, then rootFilePath
    \* ---- manifest parser ----------------------------------------------
    parserRev,            \* which revision of nmmVirtualConfigParser runs
    manifest,             \* the manifest file as found on disk
    ppc,                  \* position of the parseNMMConfigFile promise chain
    epc,                  \* position of each record's mapper promise
    eres,                 \* value each record's mapper promise resolved with
    pmeOutcome,           \* how the promise of parseModEntries settled
    outcome,              \* how the promise of parseNMMConfigFile settled
    entries,              \* the entries parseNMMConfigFile resolved with
    doneOrder,            \* the records in the order their mappers resolved
    \* ---- importMods -----------------------------------------------
    mods,                 \* argument: the mods to import, in selection order
    metadata,             \* per mod: what the cache directory of the mod holds
    transferArchives,     \* argument of the same name
    vortexCategories,     \* state.persistent.categories[gameId] as read once
    store,                \* the application store
    dispatched,           \* the actions dispatched to the store, in order
    shortids,             \* number of ids shortid() has generated
    traceFiles,           \* files written to the trace directory
    ipc,                  \* position of the importMods promise chain
    enpc,                 \* per mod: position of the mod's enhance promise
    modsEx,               \* per mod: value the enhance promise resolved with
    idx,                  \* number of mods the mapper of mapSeries was called for
    mpc,                  \* position of the promise the mapper returned
    progressLog,          \* the calls of the progress callback, in order
    results,              \* per mod: value transferUnpackedMod resolved with
    archives,             \* per mod: how the transfer of its archive ended
    importErrors,         \* the closure variable errors of importMods
    addpc,                \* position of the promise chain of addMods
    \* ---- ImportDialog ---------------------------------------------
    dialogRev,            \* which revision of the import dialog runs
    importStep,           \* props.importStep
    sources,              \* state.sources: undefined, empty or not
    dError,               \* state.error
    parsedMods,           \* state.parsedMods (part_003)
    modsToImport,         \* state.modsToImport
    importEnabled,        \* state.importEnabled
    managed,              \* the mods of the manifest that are already managed
    breach,               \* the mods need more space than the disk has
    setupPc,              \* position of the promise chain of setup
    importPc,             \* position of the promise chain of startImport
    importCalls,          \* number of calls of importMods / importArchives
    \* ---- install names --------------------------------------------
    modFileName,          \* the attribute modFileName of a record of the manifest
    res,                  \* the entry parseModEntries builds for the record
    staged,               \* the directories created under the install path
    registered,           \* the mods dispatched with actions.addMods
    npc,                  \* position of the import of the record
    \* ---- review step ----------------------------------------------
    failedImports,        \* state.failedImports
    enableModsOnFinish,   \* state.enableModsOnFinish
    selectedProfile,      \* state.selectedProfile.id
    imported,             \* the list getSuccessfullyImported returned to finish
    setModEnabled,        \* the setModEnabled actions dispatched
    finishPc,             \* position of the review step
    \* ---- the mod table of the setup step --------------------------
    nextImportEnabled,    \* nextState.importEnabled, not yet committed
    importArchives,       \* state.importArchives
    nextImportArchives,   \* nextState.importArchives
    totalNeededBytes,     \* capacityInformation.modFiles.totalNeededBytes
    counter,              \* nextState.counter
    lastOp,               \* the handler that ran last
    \* ---- the working step of the dialog ---------------------------
    autoSortEnabled,      \* state.autoSortEnabled, read by start()
    autosortPlugins,      \* the last value sent with 'autosort-plugins'
    downloadWatch,        \* the last value sent with 'enable-download-watch'
    nmmModsEnabled,       \* state.nmmModsEnabled
    nmmRunning,           \* state.nmmRunning
    nmmEnv,               \* what isConfigEmpty and isNMMRunning would find
    loops,                \* one entry per call of startImport
    opened                \* how often the wizard was opened

transferVars == <<variant, mod, nmmLinkPath, keepSource, dirs, files, pc, fpc,
                  ops, hasTransferredFiles, errors>>
resolveVars == <<rsInput, rsOutput>>
parseVars == <<parserRev, manifest, ppc, epc, eres, pmeOutcome, outcome, entries,
               doneOrder>>
importVars == <<mods, metadata, transferArchives, vortexCategories, store,
                dispatched, shortids, traceFiles, ipc, enpc, modsEx, idx, mpc,
                progressLog, results, archives, importErrors, addpc>>
dialogVars == <<dialogRev, importStep, sources, dError, parsedMods, modsToImport,
                importEnabled, managed, breach, setupPc, importPc,
                importCalls>>
nameVars == <<modFileName, res, staged, registered, npc>>
finishVars == <<failedImports, enableModsOnFinish, selectedProfile, imported,
                setModEnabled, finishPc>>
selectVars == <<nextImportEnabled, importArchives, nextImportArchives,
                totalNeededBytes, counter, lastOp>>
workVars == <<autoSortEnabled, autosortPlugins, downloadWatch, nmmModsEnabled,
              nmmRunning, nmmEnv, loops, opened>>
vars == <<transferVars, resolveVars, parseVars, importVars, dialogVars,
         nameVars, finishVars, selectVars, workVars>>

(***************************************************************************)
(* Bounds                                                                  *)
(***************************************************************************)
MaxFiles == 2
MaxStrLen == 5
MaxRecords == 2
MaxMods == 3

(***************************************************************************)
(* Strings and paths                                                       *)
(***************************************************************************)
Sep == "/"
\* the value undefined where a path is expected (no path has this character)
Undefined == <<"undefined">>

\* parseInt(...) || undefined: a missing download id and the id 0 are the same
NoDownloadId == 0

RECURSIVE IndexFrom(_, _, _)
IndexFrom(s, t, k) ==
    IF k + Len(t) > Len(s) THEN -1
    ELSE IF SubSeq(s, k + 1, k + Len(t)) = t THEN k
    ELSE IndexFrom(s, t, k + 1)

\* String.prototype.indexOf: 0-based position of the first occurrence, or -1
indexOf(s, t) == IndexFrom(s, t, 0)

\* String.prototype.substring(start)
substring(s, start) ==
    IF start >= Len(s) THEN <<>> ELSE SubSeq(s, start + 1, Len(s))

RECURSIVE Digits(_)
Digits(n) ==
    LET d == <<"0", "1", "2", "3", "4", "5", "6", "7", "8", "9">>[(n % 10) + 1]
    IN  IF n < 10 THEN <<d>> ELSE Digits(n \div 10) \o <<d>>

\* Number.prototype.toString
toString(n) == Digits(n)

RECURSIVE Normalize(_)
Normalize(p) ==
    IF Len(p) <= 1 THEN p
    ELSE IF p[1] = Sep /\ p[2] = Sep THEN Normalize(Tail(p))
    ELSE IF Len(p) = 2 /\ p[2] = Sep THEN <<p[1]>>
    ELSE <<p[1]>> \o Normalize(Tail(p))

\* path.join of two parts
join(a, b) ==
    IF a = <<>> THEN Normalize(b)
    ELSE IF b = <<>> THEN Normalize(a)
    ELSE Normalize(a \o <<Sep>> \o b)

\* path.isAbsolute (win32): a leading separator, or a drive letter, a colon
\* and a separator
isAbsolute(p) ==
    /\ Len(p) > 0
    /\ \/ p[1] = Sep
       \/ Len(p) >= 3 /\ p[2] = ":" /\ p[3] = Sep

SepPositions(p) == {k \in 1..Len(p) : p[k] = Sep}

LastSep(p) == CHOOSE k \in SepPositions(p) : \A j \in SepPositions(p) : j <= k

\* path.dirname
dirname(p) ==
    IF SepPositions(p) = {} THEN <<".">>
    ELSE IF LastSep(p) = 1 THEN <<Sep>>
    ELSE SubSeq(p, 1, LastSep(p) - 1)

\* the directory itself and every directory above it (mkdir -p)
Ancestors(d) == {SubSeq(d, 1, k - 1) : k \in {j \in SepPositions(d) : j > 1}} \cup {d}

IsUnder(p, d) == Len(p) > Len(d) /\ SubSeq(p, 1, Len(d)) = d /\ p[Len(d) + 1] = Sep

Min(S) == CHOOSE x \in S : \A y \in S : x <= y

(***************************************************************************)
(* transferUnpackedMod: inputs                                             *)
(***************************************************************************)
nmmVirtualPath == <<"V">>
installPath == <<"I">>
LinkRoot == <<"L">>

\* file links a manifest may declare for a mod
FileCatalog == <<
    \* relative destination, stored under the download id
    [fileSource |-> <<"1", "2", Sep, "a">>, fileDestination |-> <<"a">>],
    \* relative destination in a sub-directory, stored under the mod name
    [fileSource |-> <<"F", Sep, "t", Sep, "a">>, fileDestination |-> <<"t", Sep, "a">>],
    \* absolute destination, stored under the mod name
    [fileSource |-> <<"F", Sep, "b">>, fileDestination |-> <<Sep, "g", Sep, "b">>],
    \* absolute destination, stored under the download id
    [fileSource |-> <<"1", "2", Sep, "t", Sep, "c">>,
     fileDestination |-> <<Sep, "g", Sep, "t", Sep, "c">>]
>>

RECURSIVE SortedIndexSeqs(_)
SortedIndexSeqs(n) ==
    IF n = 0 THEN {<<>>}
    ELSE LET shorter == SortedIndexSeqs(n - 1)
         IN  shorter \cup
             {Append(s, k) : s \in {t \in shorter : Len(t) = n - 1},
                             k \in 1..Len(FileCatalog)}

FileEntryLists ==
    {[i \in 1..Len(s) |-> FileCatalog[s[i]]] :
        s \in {t \in SortedIndexSeqs(MaxFiles) :
                  \A i \in 1..(Len(t) - 1) : t[i] <= t[i + 1]}}

ModEntries ==
    [modName : {<<"F">>}, downloadId : {NoDownloadId, 12},
     vortexId : {<<"m">>}, isAlreadyManaged : BOOLEAN,
     fileEntries : FileEntryLists]

\* what the destination holds of a mod before the run: a mod that is already
\* managed (its vortexId is an id of the mod list) has its directory with a
\* file in it
Installed(m) ==
    IF m.isAlreadyManaged
    THEN [dirs |-> {join(installPath, m.vortexId)},
          files |-> {join(join(installPath, m.vortexId), <<"o">>)}]
    ELSE [dirs |-> {}, files |-> {}]

Files == DOMAIN mod.fileEntries

SourcePaths(m) ==
    {join(root, m.fileEntries[i].fileSource) :
        root \in {nmmVirtualPath, LinkRoot}, i \in DOMAIN m.fileEntries}

(***************************************************************************)
(* transferUnpackedMod: the code                                           *)
(***************************************************************************)
destPath == join(installPath, mod.vortexId)

directories ==
    {destPath} \cup
    {dirname(join(destPath, mod.fileEntries[i].fileDestination)) : i \in Files}

\* as rootFilePath001, but an unidentified root falls back to the source path
rootFilePath001_sourceFallback(file, m) ==
    LET isDestAbs == isAbsolute(file.fileDestination)
        nameIndex == indexOf(file.fileSource, m.modName)
        useId == nameIndex = -1 /\ m.downloadId # NoDownloadId
        parentFolderName == IF useId THEN toString(m.downloadId) ELSE m.modName
        modNameIndex == IF useId THEN indexOf(file.fileSource, parentFolderName)
                        ELSE nameIndex
    IN  IF ~isDestAbs THEN file.fileDestination
        ELSE IF modNameIndex # -1
             THEN substring(file.fileSource, modNameIndex + Len(parentFolderName) + 1)
             ELSE file.fileSource

\* as rootFilePath001, but the download id is tried before the display name
rootFilePath001_idFirst(file, m) ==
    LET isDestAbs == isAbsolute(file.fileDestination)
        idIndex == IF m.downloadId # NoDownloadId
                   THEN indexOf(file.fileSource, toString(m.downloadId)) ELSE -1
        useName == idIndex = -1
        parentFolderName == IF useName THEN m.modName ELSE toString(m.downloadId)
        modNameIndex == IF useName THEN indexOf(file.fileSource, parentFolderName)
                        ELSE idIndex
    IN  IF ~isDestAbs THEN file.fileDestination
        ELSE IF modNameIndex # -1
             THEN substring(file.fileSource, modNameIndex + Len(parentFolderName) + 1)
             ELSE Undefined

\* part_001: the legacy path resolution; Undefined when the root of the mod
\* cannot be identified
rootFilePath001(file, m) ==
    LET isDestAbs == isAbsolute(file.fileDestination)
        nameIndex == indexOf(file.fileSource, m.modName)
        useId == nameIndex = -1 /\ m.downloadId # NoDownloadId
        parentFolderName == IF useId THEN toString(m.downloadId) ELSE m.modName
        modNameIndex == IF useId THEN indexOf(file.fileSource, parentFolderName)
                        ELSE nameIndex
    IN  IF ~isDestAbs THEN file.fileDestination
        ELSE IF modNameIndex # -1
             THEN substring(file.fileSource, modNameIndex + Len(parentFolderName) + 1)
             ELSE Undefined

\* modFileImport.ts: the mod's base directory is removed from the source path
rootFilePathImport(file, m) ==
    LET modNameIndex == indexOf(file.fileSource, m.modName)
    IN  IF modNameIndex # -1
        THEN substring(file.fileSource, modNameIndex + Len(m.modName) + 1)
        ELSE file.fileSource

rootFilePath(i) ==
    IF variant = "part_001" THEN rootFilePath001(mod.fileEntries[i], mod)
    ELSE rootFilePathImport(mod.fileEntries[i], mod)

\* the result of fs.copyAsync / fs.renameAsync on the disk as it is now
OpResults(src, dst) ==
    IF src \notin files \/ dirname(dst) \notin dirs THEN {"ENOENT"}
    ELSE IF dst \in dirs THEN {"EISDIR"}
    ELSE {"ok", "EPERM"}

\* as FilesAfter, but the source is moved whatever keepSource is
FilesAfter_rename(src, dst) == (files \ {src}) \cup {dst}

\* the disk after a successful copy (keepSource) or rename
FilesAfter(src, dst) ==
    IF keepSource THEN files \cup {dst} ELSE (files \ {src}) \cup {dst}

Issue(root, i) ==
    [root |-> root,
     src |-> join(IF root = "primary" THEN nmmVirtualPath ELSE nmmLinkPath,
                  mod.fileEntries[i].fileSource),
     dst |-> join(destPath, rootFilePath(i)),
     res |-> "pending"]

Settle(i, r) == [ops EXCEPT ![i][Len(ops[i])].res = r]

Pending(i) == ops[i][Len(ops[i])]

ErrorEntry(i, message) ==
    [file |-> i, source |-> mod.fileEntries[i].fileSource, message |-> message]

\* values of the variables of a component that is not running
IdleMod == [modName |-> <<>>, downloadId |-> NoDownloadId, vortexId |-> <<>>,
            isAlreadyManaged |-> FALSE, fileEntries |-> <<>>]
IdleInput == [fileSource |-> <<>>, fileDestination |-> <<>>, modName |-> <<>>,
              downloadId |-> NoDownloadId]
IdleManifest == [readable |-> FALSE, hasRoot |-> FALSE, fileVersion |-> "null",
                 records |-> <<>>]
NotCalled == <<"none">>
\* modsToImport and parsedMods when undefined
NoMods == [defined |-> FALSE, ids |-> {}]
IdleStore == [categories |-> {}, downloads |-> {}, profiles |-> {}, mods |-> {}]

TransferInit ==
    /\ autoSortEnabled = FALSE /\ autosortPlugins = TRUE
    /\ downloadWatch = TRUE /\ nmmModsEnabled = FALSE /\ nmmRunning = FALSE
    /\ nmmEnv = [modsEnabled |-> FALSE, running |-> FALSE] /\ loops = <<>>
    /\ opened = 0
    /\ nextImportEnabled = <<>> /\ importArchives = TRUE
    /\ nextImportArchives = TRUE /\ totalNeededBytes = 0 /\ counter = 0
    /\ lastOp = [op |-> "none", id |-> 0]
    /\ failedImports = <<>> /\ enableModsOnFinish = TRUE
    /\ selectedProfile = 1 /\ imported = <<>> /\ setModEnabled = {}
    /\ finishPc = "idle"
    /\ modFileName = <<>> /\ res = IdleMod /\ staged = {}
    /\ registered = {} /\ npc = "idle"
    /\ dialogRev = "none" /\ importStep = "undefined"
    /\ sources = "undefined" /\ dError = "undefined" /\ parsedMods = NoMods
    /\ modsToImport = NoMods /\ importEnabled = <<>> /\ managed = {}
    /\ breach = FALSE /\ setupPc = "idle" /\ importPc = "idle"
    /\ importCalls = 0
    /\ mods = <<>> /\ metadata = <<>> /\ transferArchives = FALSE
    /\ vortexCategories = <<>> /\ store = IdleStore /\ dispatched = <<>>
    /\ shortids = 0 /\ traceFiles = {} /\ ipc = "idle" /\ enpc = <<>>
    /\ modsEx = <<>> /\ idx = 0 /\ mpc = "idle" /\ progressLog = <<>>
    /\ results = <<>> /\ archives = <<>> /\ importErrors = <<>>
    /\ addpc = "idle"
    /\ rsInput = IdleInput /\ rsOutput = NotCalled
    /\ parserRev = 0 /\ manifest = IdleManifest /\ ppc = "idle" /\ epc = <<>>
    /\ eres = <<>> /\ pmeOutcome = "none" /\ outcome = "none" /\ entries = <<>>
    /\ doneOrder = <<>>
    /\ variant \in {"part_001", "modFileImport"}
    /\ mod \in ModEntries
    /\ nmmLinkPath \in {<<>>, LinkRoot}
    /\ keepSource \in BOOLEAN
    /\ dirs = {installPath} \cup Installed(mod).dirs
    /\ files \in {S \cup Installed(mod).files : S \in SUBSET SourcePaths(mod)}
    /\ pc = "start"
    /\ fpc = [i \in Files |-> "wait"]
    /\ ops = [i \in Files |-> <<>>]
    /\ hasTransferredFiles = FALSE
    /\ errors = <<>>

\* Promise.map(directories, ensureDirAsync) resolves, and the mapper of the
\* second Promise.map runs for every file link
EnsureDirsOk ==
    /\ pc = "start"
    /\ dirs' = dirs \cup UNION {Ancestors(d) : d \in directories}
    /\ fpc' = [i \in Files |->
                 IF rootFilePath(i) = Undefined THEN "unresolved" ELSE "primary"]
    /\ ops' = [i \in Files |->
                 IF rootFilePath(i) = Undefined THEN <<>> ELSE <<Issue("primary", i)>>]
    /\ pc' = "files"
    /\ UNCHANGED <<variant, mod, nmmLinkPath, keepSource, files,
                   hasTransferredFiles, errors,
                   resolveVars, parseVars, importVars, dialogVars, nameVars,
                   finishVars, selectVars, workVars>>

\* one ensureDirAsync fails: the promise of transferUnpackedMod rejects
EnsureDirsFail ==
    /\ pc = "start"
    /\ \E made \in SUBSET directories :
          /\ made # directories
          /\ dirs' = dirs \cup UNION {Ancestors(d) : d \in made}
    /\ pc' = "rejected"
    /\ UNCHANGED <<variant, mod, nmmLinkPath, keepSource, files, fpc, ops,
                   hasTransferredFiles, errors,
                   resolveVars, parseVars, importVars, dialogVars, nameVars,
                   finishVars, selectVars, workVars>>

\* modFileImport.ts: operation(...).tap(...)
PrimaryOk(i) ==
    /\ variant = "modFileImport"
    /\ pc = "files" /\ fpc[i] = "primary"
    /\ "ok" \in OpResults(Pending(i).src, Pending(i).dst)
    /\ files' = FilesAfter(Pending(i).src, Pending(i).dst)
    /\ ops' = Settle(i, "ok")
    /\ hasTransferredFiles' = TRUE
    /\ fpc' = [fpc EXCEPT ![i] = "fulfilled"]
    /\ UNCHANGED <<variant, mod, nmmLinkPath, keepSource, dirs, pc, errors,
                   resolveVars, parseVars, importVars, dialogVars, nameVars,
                   finishVars, selectVars, workVars>>

\* modFileImport.ts: operation(...) fails, .catch retries from nmmLinkPath
PrimaryFailRetry(i) ==
    /\ variant = "modFileImport"
    /\ pc = "files" /\ fpc[i] = "primary"
    /\ \E r \in OpResults(Pending(i).src, Pending(i).dst) :
          /\ r = "ENOENT" /\ nmmLinkPath # <<>>
          /\ ops' = [ops EXCEPT ![i] = Append(Settle(i, r)[i], Issue("fallback", i))]
    /\ fpc' = [fpc EXCEPT ![i] = "fallback"]
    /\ UNCHANGED <<variant, mod, nmmLinkPath, keepSource, dirs, files, pc,
                   hasTransferredFiles, errors,
                   resolveVars, parseVars, importVars, dialogVars, nameVars,
                   finishVars, selectVars, workVars>>

\* modFileImport.ts: operation(...) fails, .catch records the error
PrimaryFailRecord(i) ==
    /\ variant = "modFileImport"
    /\ pc = "files" /\ fpc[i] = "primary"
    /\ \E r \in OpResults(Pending(i).src, Pending(i).dst) :
          /\ r # "ok"
          /\ ~(r = "ENOENT" /\ nmmLinkPath # <<>>)
          /\ ops' = Settle(i, r)
          /\ errors' = Append(errors, ErrorEntry(i, r))
    /\ fpc' = [fpc EXCEPT ![i] = "fulfilled"]
    /\ UNCHANGED <<variant, mod, nmmLinkPath, keepSource, dirs, files, pc,
                   hasTransferredFiles,
                   resolveVars, parseVars, importVars, dialogVars, nameVars,
                   finishVars, selectVars, workVars>>

\* modFileImport.ts: the retry from nmmLinkPath succeeds
FallbackOk(i) ==
    /\ pc = "files" /\ fpc[i] = "fallback"
    /\ "ok" \in OpResults(Pending(i).src, Pending(i).dst)
    /\ files' = FilesAfter(Pending(i).src, Pending(i).dst)
    /\ ops' = Settle(i, "ok")
    /\ hasTransferredFiles' = TRUE
    /\ fpc' = [fpc EXCEPT ![i] = "fulfilled"]
    /\ UNCHANGED <<variant, mod, nmmLinkPath, keepSource, dirs, pc, errors,
                   resolveVars, parseVars, importVars, dialogVars, nameVars,
                   finishVars, selectVars, workVars>>

\* modFileImport.ts: the retry from nmmLinkPath fails
FallbackFail(i) ==
    /\ pc = "files" /\ fpc[i] = "fallback"
    /\ \E r \in OpResults(Pending(i).src, Pending(i).dst) :
          /\ r # "ok"
          /\ ops' = Settle(i, r)
          /\ errors' = Append(errors, ErrorEntry(i, r))
    /\ fpc' = [fpc EXCEPT ![i] = "fulfilled"]
    /\ UNCHANGED <<variant, mod, nmmLinkPath, keepSource, dirs, files, pc,
                   hasTransferredFiles,
                   resolveVars, parseVars, importVars, dialogVars, nameVars,
                   finishVars, selectVars, workVars>>

\* part_001: the conditional returns operation(...) itself; .tap and .catch
\* belong to the Promise.reject(...) operand only
PrimaryOk001(i) ==
    /\ variant = "part_001"
    /\ pc \in {"files", "rejected"} /\ fpc[i] = "primary"
    /\ "ok" \in OpResults(Pending(i).src, Pending(i).dst)
    /\ files' = FilesAfter(Pending(i).src, Pending(i).dst)
    /\ ops' = Settle(i, "ok")
    /\ fpc' = [fpc EXCEPT ![i] = "fulfilled"]
    /\ UNCHANGED <<variant, mod, nmmLinkPath, keepSource, dirs, pc,
                   hasTransferredFiles, errors,
                   resolveVars, parseVars, importVars, dialogVars, nameVars,
                   finishVars, selectVars, workVars>>

\* part_001: operation(...) fails, nothing handles it: Promise.map rejects
PrimaryFail001(i) ==
    /\ variant = "part_001"
    /\ pc \in {"files", "rejected"} /\ fpc[i] = "primary"
    /\ \E r \in OpResults(Pending(i).src, Pending(i).dst) :
          /\ r # "ok"
          /\ ops' = Settle(i, r)
    /\ fpc' = [fpc EXCEPT ![i] = "rejected"]
    /\ pc' = "rejected"
    /\ UNCHANGED <<variant, mod, nmmLinkPath, keepSource, dirs, files,
                   hasTransferredFiles, errors,
                   resolveVars, parseVars, importVars, dialogVars, nameVars,
                   finishVars, selectVars, workVars>>

\* part_001: Promise.reject(DataInvalid).tap(...).catch(...): err.code is not
\* ENOENT, the error is recorded
CatchUnresolved(i) ==
    /\ variant = "part_001"
    /\ pc \in {"files", "rejected"} /\ fpc[i] = "unresolved"
    /\ errors' = Append(errors, ErrorEntry(i, "DataInvalid"))
    /\ fpc' = [fpc EXCEPT ![i] = "fulfilled"]
    /\ UNCHANGED <<variant, mod, nmmLinkPath, keepSource, dirs, files, pc, ops,
                   hasTransferredFiles,
                   resolveVars, parseVars, importVars, dialogVars, nameVars,
                   finishVars, selectVars, workVars>>

\* as FilesSettled, but the result is returned without the clean-up
FilesSettled_noCleanup ==
    /\ pc = "files"
    /\ \A i \in Files : fpc[i] = "fulfilled"
    /\ pc' = "done"
    /\ UNCHANGED <<variant, mod, nmmLinkPath, keepSource, dirs, files, fpc, ops,
                   hasTransferredFiles, errors,
                   resolveVars, parseVars, importVars, dialogVars, nameVars,
                   finishVars, selectVars, workVars>>

\* the second Promise.map resolves: .then(() => (!hasTransferredFiles) ? ...)
FilesSettled ==
    /\ pc = "files"
    /\ \A i \in Files : fpc[i] = "fulfilled"
    /\ pc' = IF hasTransferredFiles THEN "done" ELSE "removing"
    /\ UNCHANGED <<variant, mod, nmmLinkPath, keepSource, dirs, files, fpc, ops,
                   hasTransferredFiles, errors,
                   resolveVars, parseVars, importVars, dialogVars, nameVars,
                   finishVars, selectVars, workVars>>

\* as RemoveOk, but what is removed is the content of installPath
RemoveOk_installPath ==
    /\ pc = "removing"
    /\ dirs' = {d \in dirs : ~IsUnder(d, installPath)}
    /\ files' = {f \in files : ~IsUnder(f, installPath)}
    /\ pc' = "done"
    /\ UNCHANGED <<variant, mod, nmmLinkPath, keepSource, fpc, ops,
                   hasTransferredFiles, errors,
                   resolveVars, parseVars, importVars, dialogVars, nameVars,
                   finishVars, selectVars, workVars>>

\* fs.removeAsync(destPath) succeeds
RemoveOk ==
    /\ pc = "removing"
    /\ dirs' = {d \in dirs : d # destPath /\ ~IsUnder(d, destPath)}
    /\ files' = {f \in files : ~IsUnder(f, destPath)}
    /\ pc' = "done"
    /\ UNCHANGED <<variant, mod, nmmLinkPath, keepSource, fpc, ops,
                   hasTransferredFiles, errors,
                   resolveVars, parseVars, importVars, dialogVars, nameVars,
                   finishVars, selectVars, workVars>>

\* fs.removeAsync(destPath) fails: the failure is appended to errors
RemoveFail ==
    /\ pc = "removing"
    /\ errors' = Append(errors, [file |-> 0, source |-> <<"cleanup">>,
                                 message |-> "EPERM"])
    /\ pc' = "done"
    /\ UNCHANGED <<variant, mod, nmmLinkPath, keepSource, dirs, files, fpc, ops,
                   hasTransferredFiles,
                   resolveVars, parseVars, importVars, dialogVars, nameVars,
                   finishVars, selectVars, workVars>>

TransferNext ==
    \/ EnsureDirsOk
    \/ EnsureDirsFail
    \/ \E i \in Files : PrimaryOk(i)
    \/ \E i \in Files : PrimaryFailRetry(i)
    \/ \E i \in Files : PrimaryFailRecord(i)
    \/ \E i \in Files : FallbackOk(i)
    \/ \E i \in Files : FallbackFail(i)
    \/ \E i \in Files : PrimaryOk001(i)
    \/ \E i \in Files : PrimaryFail001(i)
    \/ \E i \in Files : CatchUnresolved(i)
    \/ FilesSettled
    \/ RemoveOk
    \/ RemoveFail

(***************************************************************************)
(* Path resolution as a pure function of one file link and its mod         *)
(***************************************************************************)
Alphabet == {"F", "1", "a", Sep}

RECURSIVE StringsUpTo(_)
StringsUpTo(n) ==
    IF n = 0 THEN {<<>>}
    ELSE LET shorter == StringsUpTo(n - 1)
         IN  shorter \cup
             {Append(s, c) : s \in {t \in shorter : Len(t) = n - 1}, c \in Alphabet}

ResolveInputs ==
    [fileSource : StringsUpTo(MaxStrLen),
     fileDestination : {<<"a">>, <<Sep, "a">>, <<"C", ":", Sep, "a">>},
     modName : {<<"F">>, <<"F", "a">>},
     downloadId : {NoDownloadId, 1, 11}]

ResolveInit ==
    /\ autoSortEnabled = FALSE /\ autosortPlugins = TRUE
    /\ downloadWatch = TRUE /\ nmmModsEnabled = FALSE /\ nmmRunning = FALSE
    /\ nmmEnv = [modsEnabled |-> FALSE, running |-> FALSE] /\ loops = <<>>
    /\ opened = 0
    /\ nextImportEnabled = <<>> /\ importArchives = TRUE
    /\ nextImportArchives = TRUE /\ totalNeededBytes = 0 /\ counter = 0
    /\ lastOp = [op |-> "none", id |-> 0]
    /\ failedImports = <<>> /\ enableModsOnFinish = TRUE
    /\ selectedProfile = 1 /\ imported = <<>> /\ setModEnabled = {}
    /\ finishPc = "idle"
    /\ modFileName = <<>> /\ res = IdleMod /\ staged = {}
    /\ registered = {} /\ npc = "idle"
    /\ dialogRev = "none" /\ importStep = "undefined"
    /\ sources = "undefined" /\ dError = "undefined" /\ parsedMods = NoMods
    /\ modsToImport = NoMods /\ importEnabled = <<>> /\ managed = {}
    /\ breach = FALSE /\ setupPc = "idle" /\ importPc = "idle"
    /\ importCalls = 0
    /\ mods = <<>> /\ metadata = <<>> /\ transferArchives = FALSE
    /\ vortexCategories = <<>> /\ store = IdleStore /\ dispatched = <<>>
    /\ shortids = 0 /\ traceFiles = {} /\ ipc = "idle" /\ enpc = <<>>
    /\ modsEx = <<>> /\ idx = 0 /\ mpc = "idle" /\ progressLog = <<>>
    /\ results = <<>> /\ archives = <<>> /\ importErrors = <<>>
    /\ addpc = "idle"
    /\ variant = "none" /\ mod = IdleMod /\ nmmLinkPath = <<>> /\ keepSource = TRUE
    /\ dirs = {} /\ files = {} /\ pc = "idle" /\ fpc = <<>> /\ ops = <<>>
    /\ hasTransferredFiles = FALSE /\ errors = <<>>
    /\ parserRev = 0 /\ manifest = IdleManifest /\ ppc = "idle" /\ epc = <<>>
    /\ eres = <<>> /\ pmeOutcome = "none" /\ outcome = "none" /\ entries = <<>>
    /\ doneOrder = <<>>
    /\ rsInput \in ResolveInputs
    /\ rsOutput = NotCalled

\* the mapper of part_001 computes rootFilePath for the file link
Resolve ==
    /\ rsOutput = NotCalled
    /\ rsOutput' = rootFilePath001(
                      [fileSource |-> rsInput.fileSource,
                       fileDestination |-> rsInput.fileDestination],
                      [modName |-> rsInput.modName, downloadId |-> rsInput.downloadId])
    /\ UNCHANGED <<rsInput, transferVars, parseVars, importVars, dialogVars,
                   nameVars, finishVars, selectVars, workVars>>

ResolveNext == Resolve

(***************************************************************************)
(* Manifest parser                                                         *)
(***************************************************************************)
SupportedVersion == "0.3.0.0"

\* the two outcomes of fs.statAsync and modmeta.genHash for each modInfo record
RecordLists ==
    UNION {[1..n -> [statOk : BOOLEAN, hashOk : BOOLEAN]] : n \in 0..MaxRecords}

\* fileVersion "null": the root element has no fileVersion attribute
Manifests ==
    [readable : BOOLEAN, hasRoot : BOOLEAN,
     fileVersion : {SupportedVersion, "0.2.0.0", "null"},
     records : RecordLists]

Records == DOMAIN manifest.records

\* what a mapper resolves with: an IModEntry, or undefined
UndefinedEntry == [index |-> 0, archiveMD5 |-> "undefined"]

Entry(i, md5) == [index |-> i, archiveMD5 |-> md5]

\* the sanity checks of parseModEntries: the ParseError it rejects with
parseModEntries(m) ==
    IF ~m.hasRoot THEN "Malformed"
    ELSE IF m.fileVersion # SupportedVersion THEN "Unsupported"
    ELSE IF Len(m.records) <= 0 THEN "Empty"
    ELSE "ok"

\* modEntries.filter(entry => entry !== undefined)
RECURSIVE filterDefined(_)
filterDefined(s) ==
    IF s = <<>> THEN <<>>
    ELSE IF Head(s) = UndefinedEntry THEN filterDefined(Tail(s))
    ELSE <<Head(s)>> \o filterDefined(Tail(s))

\* second revision: the .catch at the end of the chain replaces every error
catchAll(err) == "NotFound"

ParseInit ==
    /\ autoSortEnabled = FALSE /\ autosortPlugins = TRUE
    /\ downloadWatch = TRUE /\ nmmModsEnabled = FALSE /\ nmmRunning = FALSE
    /\ nmmEnv = [modsEnabled |-> FALSE, running |-> FALSE] /\ loops = <<>>
    /\ opened = 0
    /\ nextImportEnabled = <<>> /\ importArchives = TRUE
    /\ nextImportArchives = TRUE /\ totalNeededBytes = 0 /\ counter = 0
    /\ lastOp = [op |-> "none", id |-> 0]
    /\ failedImports = <<>> /\ enableModsOnFinish = TRUE
    /\ selectedProfile = 1 /\ imported = <<>> /\ setModEnabled = {}
    /\ finishPc = "idle"
    /\ modFileName = <<>> /\ res = IdleMod /\ staged = {}
    /\ registered = {} /\ npc = "idle"
    /\ dialogRev = "none" /\ importStep = "undefined"
    /\ sources = "undefined" /\ dError = "undefined" /\ parsedMods = NoMods
    /\ modsToImport = NoMods /\ importEnabled = <<>> /\ managed = {}
    /\ breach = FALSE /\ setupPc = "idle" /\ importPc = "idle"
    /\ importCalls = 0
    /\ mods = <<>> /\ metadata = <<>> /\ transferArchives = FALSE
    /\ vortexCategories = <<>> /\ store = IdleStore /\ dispatched = <<>>
    /\ shortids = 0 /\ traceFiles = {} /\ ipc = "idle" /\ enpc = <<>>
    /\ modsEx = <<>> /\ idx = 0 /\ mpc = "idle" /\ progressLog = <<>>
    /\ results = <<>> /\ archives = <<>> /\ importErrors = <<>>
    /\ addpc = "idle"
    /\ variant = "none" /\ mod = IdleMod /\ nmmLinkPath = <<>> /\ keepSource = TRUE
    /\ dirs = {} /\ files = {} /\ pc = "idle" /\ fpc = <<>> /\ ops = <<>>
    /\ hasTransferredFiles = FALSE /\ errors = <<>>
    /\ rsInput = IdleInput /\ rsOutput = NotCalled
    /\ parserRev \in {1, 2}
    /\ manifest \in Manifests
    /\ ppc = "read"
    /\ epc = [i \in Records |-> "stat"]
    /\ eres = [i \in Records |-> UndefinedEntry]
    /\ pmeOutcome = "none"
    /\ outcome = "none"
    /\ entries = <<>>
    /\ doneOrder = <<>>

\* fs.readFileAsync rejects
ReadFileFail ==
    /\ ppc = "read" /\ ~manifest.readable
    /\ outcome' = "NotFound"
    /\ ppc' = "settled"
    /\ UNCHANGED <<doneOrder, parserRev, manifest, epc, eres, pmeOutcome, entries,
                   transferVars, resolveVars, importVars, dialogVars,
                   nameVars, finishVars, selectVars, workVars>>

\* first revision: parseModEntries rejects, nothing catches after .then
ParseReject1 ==
    /\ parserRev = 1
    /\ ppc = "read" /\ manifest.readable
    /\ parseModEntries(manifest) # "ok"
    /\ pmeOutcome' = parseModEntries(manifest)
    /\ outcome' = parseModEntries(manifest)
    /\ ppc' = "settled"
    /\ UNCHANGED <<doneOrder, parserRev, manifest, epc, eres, entries,
                   transferVars, resolveVars, importVars, dialogVars,
                   nameVars, finishVars, selectVars, workVars>>

\* second revision: parseModEntries rejects inside the .then that the final
\* .catch covers
ParseReject2 ==
    /\ parserRev = 2
    /\ ppc = "read" /\ manifest.readable
    /\ parseModEntries(manifest) # "ok"
    /\ pmeOutcome' = parseModEntries(manifest)
    /\ outcome' = catchAll(parseModEntries(manifest))
    /\ ppc' = "settled"
    /\ UNCHANGED <<doneOrder, parserRev, manifest, epc, eres, entries,
                   transferVars, resolveVars, importVars, dialogVars,
                   nameVars, finishVars, selectVars, workVars>>

\* the checks pass: Promise.map starts one mapper per modInfo record
ParseStart ==
    /\ ppc = "read" /\ manifest.readable
    /\ parseModEntries(manifest) = "ok"
    /\ ppc' = "map"
    /\ UNCHANGED <<doneOrder, parserRev, manifest, epc, eres, pmeOutcome, outcome, entries,
                   transferVars, resolveVars, importVars, dialogVars,
                   nameVars, finishVars, selectVars, workVars>>

\* fs.statAsync(path.join(virtualInstallPath, archiveName)) resolves
StatOk(i) ==
    /\ ppc = "map" /\ epc[i] = "stat"
    /\ manifest.records[i].statOk
    /\ epc' = [epc EXCEPT ![i] = "hash"]
    /\ UNCHANGED <<doneOrder, parserRev, manifest, ppc, eres, pmeOutcome, outcome, entries,
                   transferVars, resolveVars, importVars, dialogVars,
                   nameVars, finishVars, selectVars, workVars>>

\* first revision: the stat fails, .catch(() => undefined), the hash follows
StatFail1(i) ==
    /\ parserRev = 1
    /\ ppc = "map" /\ epc[i] = "stat"
    /\ ~manifest.records[i].statOk
    /\ epc' = [epc EXCEPT ![i] = "hash"]
    /\ UNCHANGED <<doneOrder, parserRev, manifest, ppc, eres, pmeOutcome, outcome, entries,
                   transferVars, resolveVars, importVars, dialogVars,
                   nameVars, finishVars, selectVars, workVars>>

\* second revision: the stat fails, the mapper resolves with undefined
StatFail2(i) ==
    /\ parserRev = 2
    /\ ppc = "map" /\ epc[i] = "stat"
    /\ ~manifest.records[i].statOk
    /\ epc' = [epc EXCEPT ![i] = "done"]
    /\ doneOrder' = Append(doneOrder, i)
    /\ eres' = [eres EXCEPT ![i] = UndefinedEntry]
    /\ UNCHANGED <<parserRev, manifest, ppc, pmeOutcome, outcome, entries,
                   transferVars, resolveVars, importVars, dialogVars,
                   nameVars, finishVars, selectVars, workVars>>

\* modmeta.genHash resolves: res.archiveMD5 = hashResult.md5sum
HashOk(i) ==
    /\ ppc = "map" /\ epc[i] = "hash"
    /\ manifest.records[i].hashOk
    /\ epc' = [epc EXCEPT ![i] = "done"]
    /\ doneOrder' = Append(doneOrder, i)
    /\ eres' = [eres EXCEPT ![i] = Entry(i, "md5")]
    /\ UNCHANGED <<parserRev, manifest, ppc, pmeOutcome, outcome, entries,
                   transferVars, resolveVars, importVars, dialogVars,
                   nameVars, finishVars, selectVars, workVars>>

\* first revision: genHash rejects, .catch(() => { res.archiveMD5 = null; })
HashFail1(i) ==
    /\ parserRev = 1
    /\ ppc = "map" /\ epc[i] = "hash"
    /\ ~manifest.records[i].hashOk
    /\ epc' = [epc EXCEPT ![i] = "done"]
    /\ doneOrder' = Append(doneOrder, i)
    /\ eres' = [eres EXCEPT ![i] = Entry(i, "null")]
    /\ UNCHANGED <<parserRev, manifest, ppc, pmeOutcome, outcome, entries,
                   transferVars, resolveVars, importVars, dialogVars,
                   nameVars, finishVars, selectVars, workVars>>

\* second revision: genHash rejects, .catch(() => Promise.resolve(undefined))
HashFail2(i) ==
    /\ parserRev = 2
    /\ ppc = "map" /\ epc[i] = "hash"
    /\ ~manifest.records[i].hashOk
    /\ epc' = [epc EXCEPT ![i] = "done"]
    /\ doneOrder' = Append(doneOrder, i)
    /\ eres' = [eres EXCEPT ![i] = UndefinedEntry]
    /\ UNCHANGED <<parserRev, manifest, ppc, pmeOutcome, outcome, entries,
                   transferVars, resolveVars, importVars, dialogVars,
                   nameVars, finishVars, selectVars, workVars>>

\* as MapResolved1, but the entries are collected as the mappers resolve
MapResolved1_completionOrder ==
    /\ parserRev = 1
    /\ ppc = "map"
    /\ \A i \in Records : epc[i] = "done"
    /\ pmeOutcome' = "entries"
    /\ outcome' = "entries"
    /\ entries' = [k \in DOMAIN doneOrder |-> eres[doneOrder[k]]]
    /\ ppc' = "settled"
    /\ UNCHANGED <<doneOrder, parserRev, manifest, epc, eres,
                   transferVars, resolveVars, importVars, dialogVars,
                   nameVars, finishVars, selectVars, workVars>>

\* first revision: Promise.map resolves, parseNMMConfigFile resolves with it
MapResolved1 ==
    /\ parserRev = 1
    /\ ppc = "map"
    /\ \A i \in Records : epc[i] = "done"
    /\ pmeOutcome' = "entries"
    /\ outcome' = "entries"
    /\ entries' = eres
    /\ ppc' = "settled"
    /\ UNCHANGED <<doneOrder, parserRev, manifest, epc, eres,
                   transferVars, resolveVars, importVars, dialogVars,
                   nameVars, finishVars, selectVars, workVars>>

\* second revision: Promise.map resolves, undefined entries are filtered out
MapResolved2 ==
    /\ parserRev = 2
    /\ ppc = "map"
    /\ \A i \in Records : epc[i] = "done"
    /\ pmeOutcome' = "entries"
    /\ outcome' = "entries"
    /\ entries' = filterDefined(eres)
    /\ ppc' = "settled"
    /\ UNCHANGED <<doneOrder, parserRev, manifest, epc, eres,
                   transferVars, resolveVars, importVars, dialogVars,
                   nameVars, finishVars, selectVars, workVars>>

ParseNext ==
    \/ ReadFileFail
    \/ ParseReject1
    \/ ParseReject2
    \/ ParseStart
    \/ \E i \in Records : StatOk(i)
    \/ \E i \in Records : StatFail1(i)
    \/ \E i \in Records : StatFail2(i)
    \/ \E i \in Records : HashOk(i)
    \/ \E i \in Records : HashFail1(i)
    \/ \E i \in Records : HashFail2(i)
    \/ MapResolved1
    \/ MapResolved2

(***************************************************************************)
(* importMods: inputs                                                      *)
(***************************************************************************)
modsPath == <<"P">>
downloadPath == <<"D">>

\* the mods of the legacy installation, in the order the dialog lists them
ModCatalog == <<
    \* stored under the mod name, relative destination in a sub-directory
    [modName |-> <<"F">>, modFilename |-> <<"m", ".", "z">>,
     archivePath |-> modsPath, downloadId |-> NoDownloadId, vortexId |-> <<"m">>,
     isAlreadyManaged |-> FALSE,
     fileEntries |-> <<[fileSource |-> <<"F", Sep, "t", Sep, "a">>,
                        fileDestination |-> <<"t", Sep, "a">>]>>],
    \* stored under the mod name, relative destination, with a download id
    [modName |-> <<"G">>, modFilename |-> <<"n", ".", "z">>,
     archivePath |-> modsPath, downloadId |-> 12, vortexId |-> <<"n">>,
     isAlreadyManaged |-> FALSE,
     fileEntries |-> <<[fileSource |-> <<"G", Sep, "b">>,
                        fileDestination |-> <<"b">>]>>],
    \* stored under another name than the mod name, absolute destination
    [modName |-> <<"H">>, modFilename |-> <<"o", ".", "z">>,
     archivePath |-> modsPath, downloadId |-> NoDownloadId, vortexId |-> <<"o">>,
     isAlreadyManaged |-> FALSE,
     fileEntries |-> <<[fileSource |-> <<"K", Sep, "c">>,
                        fileDestination |-> <<Sep, "g", Sep, "c">>]>>]
>>

\* the mods a user can select: any of the catalog, in the order of the catalog
Selections ==
    {[k \in 1..Cardinality(S) |->
         ModCatalog[CHOOSE c \in S : Cardinality({b \in S : b < c}) = k - 1]] :
        S \in {T \in SUBSET DOMAIN ModCatalog : Cardinality(T) <= MaxMods}}

CatalogIndex(m) == CHOOSE c \in DOMAIN ModCatalog : ModCatalog[c] = m

\* categoryId and parentCategory when undefined
NoCategory == <<"undefined", 0>>
RootCategory == <<"nmm", 0>>

\* the name nmmCategories[categoryId] of a mod whose category is unknown
NoName == "undefined"

\* what the cache directory holds about a mod: whether cacheInfo.txt and
\* fomod/info.xml can be read, the Name element, and the name of the legacy
\* category the CustomCategoryId / CategoryId element stands for
NoMetadata ==
    [cacheInfo |-> FALSE, infoXml |-> FALSE, customName |-> Undefined,
     category |-> NoName]
NoInfoXml ==
    [cacheInfo |-> TRUE, infoXml |-> FALSE, customName |-> Undefined,
     category |-> NoName]
Info(name) ==
    [cacheInfo |-> TRUE, infoXml |-> TRUE, customName |-> <<"C">>, category |-> name]

\* state.persistent.categories[gameId] in the order of Object.keys
CategoryTrees == {
    <<>>,
    <<[id |-> <<"cat", 1>>, name |-> "armor", parentCategory |-> NoCategory],
      [id |-> <<"cat", 2>>, name |-> "Armor", parentCategory |-> <<"cat", 1>>]>>,
    <<[id |-> RootCategory, name |-> "Imported from NMM", parentCategory |-> NoCategory],
      [id |-> <<"nmm", 1>>, name |-> "Weapons", parentCategory |-> RootCategory]>>
}

Nodes(tree) == {tree[k] : k \in DOMAIN tree}

ArchivePath(m) == join(m.archivePath, m.modFilename)

AtMostOne(S) == {{}} \cup {{x} : x \in S}

\* the disks of an installation: every file is on the fallback root; at most
\* one of them is missing from the primary root and at most one of the
\* archives is missing from the mods directory
Disks(sel) ==
    LET stored == {sel[k].fileEntries[i].fileSource :
                       k \in DOMAIN sel, i \in 1..1}
        primary == {join(nmmVirtualPath, f) : f \in stored}
        packed == {ArchivePath(sel[k]) : k \in DOMAIN sel}
    IN  {{join(LinkRoot, f) : f \in stored} \cup (primary \ missing) \cup (packed \ gone) :
            missing \in AtMostOne(primary), gone \in AtMostOne(packed)}

\* what the cache directories hold about the mods of the catalog
MetadataCatalogs == {
    <<Info("Armor"), NoInfoXml, NoMetadata>>,
    <<NoMetadata, Info("Armor"), Info("Weapons")>>
}

(***************************************************************************)
(* importMods: the code                                                    *)
(***************************************************************************)
CategoryKeys == {vortexCategories[k].id : k \in DOMAIN vortexCategories}

\* let id = 1; while (vortexCategories[`nmm_${id}`] !== undefined) { ++id; }
RECURSIVE FirstFreeId(_)
FirstFreeId(id) ==
    IF <<"nmm", id>> \in CategoryKeys THEN FirstFreeId(id + 1) ELSE id

setCategory(id, name, parent) ==
    [type |-> "setCategory", id |-> id, name |-> name, parentCategory |-> parent]

\* as makeVortexCategory, but without the search for an existing category
makeVortexCategory_noSearch(name) ==
    [id |-> <<"nmm", FirstFreeId(1)>>,
     actions |->
        (IF RootCategory \notin CategoryKeys
         THEN <<setCategory(RootCategory, "Imported from NMM", NoCategory)>>
         ELSE <<>>)
        \o <<setCategory(<<"nmm", FirstFreeId(1)>>, name, RootCategory)>>]

\* the id makeVortexCategory returns and the actions it dispatches
makeVortexCategory(name) ==
    LET existing == {k \in DOMAIN vortexCategories : vortexCategories[k].name = name}
    IN  IF existing # {}
        THEN [id |-> vortexCategories[Min(existing)].id, actions |-> <<>>]
        ELSE [id |-> <<"nmm", FirstFreeId(1)>>,
              actions |->
                 (IF RootCategory \notin CategoryKeys
                  THEN <<setCategory(RootCategory, "Imported from NMM", NoCategory)>>
                  ELSE <<>>)
                 \o <<setCategory(<<"nmm", FirstFreeId(1)>>, name, RootCategory)>>]

\* the categories of the store after the reducer handled setCategory
RECURSIVE Reduce(_, _)
Reduce(categories, actions) ==
    IF actions = <<>> THEN categories
    ELSE Reduce({c \in categories : c.id # Head(actions).id} \cup
                   {[id |-> Head(actions).id, name |-> Head(actions).name,
                     parentCategory |-> Head(actions).parentCategory]},
                Tail(actions))

\* mod.archiveId; enhance returns its input, which has no archiveId, when
\* the metadata cannot be read
NoArchiveId == 0
archiveId(m) == IF "archiveId" \in DOMAIN m THEN m.archiveId ELSE NoArchiveId

\* failed.length, where failed is the value transferUnpackedMod resolved with
length(v) == IF "length" \in DOMAIN v THEN v.length ELSE Undefined

\* undefined > 0 is false
GreaterThan(x, n) == IF x = Undefined THEN FALSE ELSE x > n

\* modFilename.substr(0, modFilename.lastIndexOf('.'))
lastIndexOf(s, c) ==
    IF \E k \in DOMAIN s : s[k] = c
    THEN (CHOOSE k \in DOMAIN s : s[k] = c /\ \A j \in DOMAIN s : s[j] = c => j <= k) - 1
    ELSE -1

substr(s, start, n) == SubSeq(s, start + 1, start + n)

basename(p) ==
    IF SepPositions(p) = {} THEN p ELSE SubSeq(p, LastSep(p) + 1, Len(p))

\* the id under which addMods registers the mod of an entry
RegisteredId(m) == substr(m.modFilename, 0, lastIndexOf(m.modFilename, "."))

ImportInit ==
    /\ autoSortEnabled = FALSE /\ autosortPlugins = TRUE
    /\ downloadWatch = TRUE /\ nmmModsEnabled = FALSE /\ nmmRunning = FALSE
    /\ nmmEnv = [modsEnabled |-> FALSE, running |-> FALSE] /\ loops = <<>>
    /\ opened = 0
    /\ nextImportEnabled = <<>> /\ importArchives = TRUE
    /\ nextImportArchives = TRUE /\ totalNeededBytes = 0 /\ counter = 0
    /\ lastOp = [op |-> "none", id |-> 0]
    /\ failedImports = <<>> /\ enableModsOnFinish = TRUE
    /\ selectedProfile = 1 /\ imported = <<>> /\ setModEnabled = {}
    /\ finishPc = "idle"
    /\ modFileName = <<>> /\ res = IdleMod /\ staged = {}
    /\ registered = {} /\ npc = "idle"
    /\ dialogRev = "none" /\ importStep = "undefined"
    /\ sources = "undefined" /\ dError = "undefined" /\ parsedMods = NoMods
    /\ modsToImport = NoMods /\ importEnabled = <<>> /\ managed = {}
    /\ breach = FALSE /\ setupPc = "idle" /\ importPc = "idle"
    /\ importCalls = 0
    /\ rsInput = IdleInput /\ rsOutput = NotCalled
    /\ parserRev = 0 /\ manifest = IdleManifest /\ ppc = "idle" /\ epc = <<>>
    /\ eres = <<>> /\ pmeOutcome = "none" /\ outcome = "none" /\ entries = <<>>
    /\ doneOrder = <<>>
    /\ variant \in {"part_001", "modFileImport"}
    /\ nmmLinkPath \in {<<>>, LinkRoot}
    /\ keepSource = TRUE
    /\ mods \in Selections
    /\ \E cache \in MetadataCatalogs :
          metadata = [k \in DOMAIN mods |-> cache[CatalogIndex(mods[k])]]
    /\ transferArchives \in BOOLEAN
    /\ vortexCategories = <<>>
    /\ store = [IdleStore EXCEPT !.categories = Nodes(vortexCategories)]
    /\ dirs = {installPath, downloadPath, modsPath}
    /\ files \in Disks(mods)
    /\ transferArchives \/ \A k \in DOMAIN mods : ArchivePath(mods[k]) \in files
    /\ mod = IdleMod /\ pc = "idle" /\ fpc = <<>> /\ ops = <<>>
    /\ hasTransferredFiles = FALSE /\ errors = <<>>
    /\ dispatched = <<>> /\ shortids = 0 /\ traceFiles = {}
    /\ ipc = "writing"
    /\ enpc = [k \in DOMAIN mods |-> "wait"]
    /\ modsEx = mods
    /\ idx = 0 /\ mpc = "idle" /\ progressLog = <<>> /\ results = <<>>
    /\ archives = [k \in DOMAIN mods |-> "none"]
    /\ importErrors = <<>> /\ addpc = "idle"

\* the legacy categories and the categories of the store vary, nothing is
\* on disk but the metadata
CategoryInit ==
    /\ autoSortEnabled = FALSE /\ autosortPlugins = TRUE
    /\ downloadWatch = TRUE /\ nmmModsEnabled = FALSE /\ nmmRunning = FALSE
    /\ nmmEnv = [modsEnabled |-> FALSE, running |-> FALSE] /\ loops = <<>>
    /\ opened = 0
    /\ nextImportEnabled = <<>> /\ importArchives = TRUE
    /\ nextImportArchives = TRUE /\ totalNeededBytes = 0 /\ counter = 0
    /\ lastOp = [op |-> "none", id |-> 0]
    /\ failedImports = <<>> /\ enableModsOnFinish = TRUE
    /\ selectedProfile = 1 /\ imported = <<>> /\ setModEnabled = {}
    /\ finishPc = "idle"
    /\ modFileName = <<>> /\ res = IdleMod /\ staged = {}
    /\ registered = {} /\ npc = "idle"
    /\ dialogRev = "none" /\ importStep = "undefined"
    /\ sources = "undefined" /\ dError = "undefined" /\ parsedMods = NoMods
    /\ modsToImport = NoMods /\ importEnabled = <<>> /\ managed = {}
    /\ breach = FALSE /\ setupPc = "idle" /\ importPc = "idle"
    /\ importCalls = 0
    /\ rsInput = IdleInput /\ rsOutput = NotCalled
    /\ parserRev = 0 /\ manifest = IdleManifest /\ ppc = "idle" /\ epc = <<>>
    /\ eres = <<>> /\ pmeOutcome = "none" /\ outcome = "none" /\ entries = <<>>
    /\ doneOrder = <<>>
    /\ variant = "modFileImport"
    /\ nmmLinkPath = <<>>
    /\ keepSource = TRUE
    /\ mods \in Selections
    /\ metadata \in [DOMAIN mods ->
                       {NoMetadata, NoInfoXml} \cup
                       {Info(name) : name \in {NoName, "Armor", "Weapons", "Shields"}}]
    /\ transferArchives = FALSE
    /\ vortexCategories \in CategoryTrees
    /\ store = [IdleStore EXCEPT !.categories = Nodes(vortexCategories)]
    /\ dirs = {installPath, downloadPath, modsPath}
    /\ files = {}
    /\ mod = IdleMod /\ pc = "idle" /\ fpc = <<>> /\ ops = <<>>
    /\ hasTransferredFiles = FALSE /\ errors = <<>>
    /\ dispatched = <<>> /\ shortids = 0 /\ traceFiles = {}
    /\ ipc = "writing"
    /\ enpc = [k \in DOMAIN mods |-> "wait"]
    /\ modsEx = mods
    /\ idx = 0 /\ mpc = "idle" /\ progressLog = <<>> /\ results = <<>>
    /\ archives = [k \in DOMAIN mods |-> "none"]
    /\ importErrors = <<>> /\ addpc = "idle"

\* trace.writeFile('parsedMods.json', ...) resolves; Promise.map calls
\* enhance for every mod, and every enhance starts reading cacheInfo.txt
WriteFileOk ==
    /\ ipc = "writing"
    /\ traceFiles' = traceFiles \cup {"parsedMods.json"}
    /\ enpc' = [k \in DOMAIN mods |-> "cacheInfo"]
    /\ ipc' = "enhancing"
    /\ UNCHANGED <<mods, metadata, transferArchives, vortexCategories, store,
                   dispatched, shortids, modsEx, idx, mpc, progressLog, results,
                   archives, importErrors, addpc,
                   transferVars, resolveVars, parseVars, dialogVars,
                   nameVars, finishVars, selectVars, workVars>>

\* as WriteFileFail, but the failure is swallowed and the import goes on
WriteFileFail_swallowed ==
    /\ ipc = "writing"
    /\ enpc' = [k \in DOMAIN mods |-> "cacheInfo"]
    /\ ipc' = "enhancing"
    /\ UNCHANGED <<mods, metadata, transferArchives, vortexCategories, store,
                   dispatched, shortids, traceFiles, modsEx, idx, mpc,
                   progressLog, results, archives, importErrors, addpc,
                   transferVars, resolveVars, parseVars, dialogVars,
                   nameVars, finishVars, selectVars, workVars>>

\* trace.writeFile rejects: no handler of the chain runs, importMods rejects
WriteFileFail ==
    /\ ipc = "writing"
    /\ ipc' = "rejected"
    /\ UNCHANGED <<mods, metadata, transferArchives, vortexCategories, store,
                   dispatched, shortids, traceFiles, enpc, modsEx, idx, mpc,
                   progressLog, results, archives, importErrors, addpc,
                   transferVars, resolveVars, parseVars, dialogVars,
                   nameVars, finishVars, selectVars, workVars>>

\* enhance: cacheInfo.txt is read, the read of fomod/info.xml starts
ReadCacheInfoOk(k) ==
    /\ ipc = "enhancing" /\ enpc[k] = "cacheInfo"
    /\ metadata[k].cacheInfo
    /\ enpc' = [enpc EXCEPT ![k] = "infoXml"]
    /\ UNCHANGED <<mods, metadata, transferArchives, vortexCategories, store,
                   dispatched, shortids, traceFiles, ipc, modsEx, idx, mpc,
                   progressLog, results, archives, importErrors, addpc,
                   transferVars, resolveVars, parseVars, dialogVars,
                   nameVars, finishVars, selectVars, workVars>>

\* as ReadCacheInfoFail, but without the .catch: the rejection reaches the
\* caller of importMods
ReadCacheInfoFail_uncaught(k) ==
    /\ ipc = "enhancing" /\ enpc[k] = "cacheInfo"
    /\ ~metadata[k].cacheInfo
    /\ enpc' = [enpc EXCEPT ![k] = "done"]
    /\ ipc' = "rejected"
    /\ UNCHANGED <<mods, metadata, transferArchives, vortexCategories, store,
                   dispatched, shortids, traceFiles, modsEx, idx, mpc,
                   progressLog, results, archives, importErrors, addpc,
                   transferVars, resolveVars, parseVars, dialogVars,
                   nameVars, finishVars, selectVars, workVars>>

\* enhance: cacheInfo.txt cannot be read, .catch(err => input)
ReadCacheInfoFail(k) ==
    /\ ipc = "enhancing" /\ enpc[k] = "cacheInfo"
    /\ ~metadata[k].cacheInfo
    /\ enpc' = [enpc EXCEPT ![k] = "done"]
    /\ UNCHANGED <<mods, metadata, transferArchives, vortexCategories, store,
                   dispatched, shortids, traceFiles, ipc, modsEx, idx, mpc,
                   progressLog, results, archives, importErrors, addpc,
                   transferVars, resolveVars, parseVars, dialogVars,
                   nameVars, finishVars, selectVars, workVars>>

\* enhance: fomod/info.xml cannot be read, .catch(err => input)
ReadInfoXmlFail(k) ==
    /\ ipc = "enhancing" /\ enpc[k] = "infoXml"
    /\ ~metadata[k].infoXml
    /\ enpc' = [enpc EXCEPT ![k] = "done"]
    /\ UNCHANGED <<mods, metadata, transferArchives, vortexCategories, store,
                   dispatched, shortids, traceFiles, ipc, modsEx, idx, mpc,
                   progressLog, results, archives, importErrors, addpc,
                   transferVars, resolveVars, parseVars, dialogVars,
                   nameVars, finishVars, selectVars, workVars>>

\* enhance: fomod/info.xml is read; the category of the mod is looked up with
\* makeVortexCategory, which dispatches to the store, and the entry is
\* returned with archiveId, categoryId and customName
ReadInfoXmlOk(k) ==
    /\ ipc = "enhancing" /\ enpc[k] = "infoXml"
    /\ metadata[k].infoXml
    /\ LET category == metadata[k].category
           found == IF category # NoName THEN makeVortexCategory(category)
                    ELSE [id |-> NoCategory, actions |-> <<>>]
       IN  /\ store' = [store EXCEPT !.categories = Reduce(@, found.actions)]
           /\ dispatched' = dispatched \o
                  [a \in DOMAIN found.actions |->
                      [type |-> found.actions[a].type, id |-> found.actions[a].id,
                       name |-> found.actions[a].name,
                       parentCategory |-> found.actions[a].parentCategory,
                       by |-> k]]
           /\ modsEx' = [modsEx EXCEPT ![k] =
                  [field \in DOMAIN modsEx[k] \cup {"archiveId", "categoryId", "customName"} |->
                      CASE field = "archiveId" -> shortids + 1
                        [] field = "categoryId" -> found.id
                        [] field = "customName" -> metadata[k].customName
                        [] OTHER -> modsEx[k][field]]]
    /\ shortids' = shortids + 1
    /\ enpc' = [enpc EXCEPT ![k] = "done"]
    /\ UNCHANGED <<mods, metadata, transferArchives, vortexCategories,
                   traceFiles, ipc, idx, mpc, progressLog, results, archives,
                   importErrors, addpc,
                   transferVars, resolveVars, parseVars, dialogVars,
                   nameVars, finishVars, selectVars, workVars>>

\* Promise.map(mods, enhance) resolves: Promise.mapSeries starts
EnhanceResolved ==
    /\ ipc = "enhancing"
    /\ \A k \in DOMAIN mods : enpc[k] = "done"
    /\ ipc' = "transferring"
    /\ mpc' = "next"
    /\ UNCHANGED <<mods, metadata, transferArchives, vortexCategories, store,
                   dispatched, shortids, traceFiles, enpc, modsEx, idx,
                   progressLog, results, archives, importErrors, addpc,
                   transferVars, resolveVars, parseVars, dialogVars,
                   nameVars, finishVars, selectVars, workVars>>

\* as MapperCall, but progress reports the position counted from one
MapperCall_fromOne ==
    /\ ipc = "transferring" /\ mpc = "next" /\ idx < Len(modsEx)
    /\ progressLog' = Append(progressLog, [mod |-> modsEx[idx + 1].modName, idx |-> idx + 1])
    /\ idx' = idx + 1
    /\ mod' = modsEx[idx + 1]
    /\ pc' = "start"
    /\ fpc' = [i \in DOMAIN modsEx[idx + 1].fileEntries |-> "wait"]
    /\ ops' = [i \in DOMAIN modsEx[idx + 1].fileEntries |-> <<>>]
    /\ hasTransferredFiles' = FALSE
    /\ errors' = <<>>
    /\ mpc' = "transfer"
    /\ UNCHANGED <<mods, metadata, transferArchives, vortexCategories, store,
                   dispatched, shortids, traceFiles, ipc, enpc, modsEx, results,
                   archives, importErrors, addpc,
                   variant, nmmLinkPath, keepSource, dirs, files,
                   resolveVars, parseVars, dialogVars, nameVars, finishVars,
                   selectVars, workVars>>

\* the mapper of Promise.mapSeries is called for the next mod: progress is
\* reported and transferUnpackedMod is called
MapperCall ==
    /\ ipc = "transferring" /\ mpc = "next" /\ idx < Len(modsEx)
    /\ progressLog' = Append(progressLog, [mod |-> modsEx[idx + 1].modName, idx |-> idx])
    /\ idx' = idx + 1
    /\ mod' = modsEx[idx + 1]
    /\ pc' = "start"
    /\ fpc' = [i \in DOMAIN modsEx[idx + 1].fileEntries |-> "wait"]
    /\ ops' = [i \in DOMAIN modsEx[idx + 1].fileEntries |-> <<>>]
    /\ hasTransferredFiles' = FALSE
    /\ errors' = <<>>
    /\ mpc' = "transfer"
    /\ UNCHANGED <<mods, metadata, transferArchives, vortexCategories, store,
                   dispatched, shortids, traceFiles, ipc, enpc, modsEx, results,
                   archives, importErrors, addpc,
                   variant, nmmLinkPath, keepSource, dirs, files,
                   resolveVars, parseVars, dialogVars, nameVars, finishVars,
                   selectVars, workVars>>

\* transferUnpackedMod resolves: .then(failed => ...) looks at failed.length
\* and, when archives are transferred, starts fs.statAsync(archivePath)
TransferResolved ==
    /\ ipc = "transferring" /\ mpc = "transfer" /\ pc = "done"
    /\ LET failed == [hasTransferredFiles |-> hasTransferredFiles, errors |-> errors]
       IN  /\ results' = Append(results, failed)
           /\ importErrors' = IF GreaterThan(length(failed), 0)
                              THEN Append(importErrors, mod.modName)
                              ELSE importErrors
    /\ mpc' = IF transferArchives THEN "stat" ELSE "next"
    /\ UNCHANGED <<mods, metadata, transferArchives, vortexCategories, store,
                   dispatched, shortids, traceFiles, ipc, enpc, modsEx, idx,
                   progressLog, archives, addpc,
                   transferVars, resolveVars, parseVars, dialogVars,
                   nameVars, finishVars, selectVars, workVars>>

\* transferUnpackedMod rejects: nothing in importMods handles the rejection
TransferRejected ==
    /\ ipc = "transferring" /\ mpc = "transfer" /\ pc = "rejected"
    /\ ipc' = "rejected"
    /\ mpc' = "idle"
    /\ UNCHANGED <<mods, metadata, transferArchives, vortexCategories, store,
                   dispatched, shortids, traceFiles, enpc, modsEx, idx,
                   progressLog, results, archives, importErrors, addpc,
                   transferVars, resolveVars, parseVars, dialogVars,
                   nameVars, finishVars, selectVars, workVars>>

\* fs.statAsync(archivePath) resolves: the download is registered and
\* transferArchive starts to copy the archive
StatArchiveOk ==
    /\ ipc = "transferring" /\ mpc = "stat"
    /\ ArchivePath(mod) \in files
    /\ store' = [store EXCEPT !.downloads =
                    @ \cup {[id |-> archiveId(mod), file |-> mod.modFilename]}]
    /\ dispatched' = Append(dispatched,
                        [type |-> "addLocalDownload", id |-> <<"download", archiveId(mod)>>,
                         name |-> "", parentCategory |-> NoCategory, by |-> idx])
    /\ mpc' = "copy"
    /\ UNCHANGED <<mods, metadata, transferArchives, vortexCategories,
                   shortids, traceFiles, ipc, enpc, modsEx, idx, progressLog,
                   results, archives, importErrors, addpc,
                   transferVars, resolveVars, parseVars, dialogVars,
                   nameVars, finishVars, selectVars, workVars>>

\* as StatArchiveFail, but without the catch: importMods rejects
StatArchiveFail_uncaught ==
    /\ ipc = "transferring" /\ mpc = "stat"
    /\ ArchivePath(mod) \notin files
    /\ archives' = [archives EXCEPT ![idx] = "statFailed"]
    /\ ipc' = "rejected"
    /\ mpc' = "idle"
    /\ UNCHANGED <<mods, metadata, transferArchives, vortexCategories, store,
                   dispatched, shortids, traceFiles, enpc, modsEx, idx,
                   progressLog, results, importErrors, addpc,
                   transferVars, resolveVars, parseVars, dialogVars,
                   nameVars, finishVars, selectVars, workVars>>

\* fs.statAsync(archivePath) rejects: .catch(err => errors.push(modFilename))
StatArchiveFail ==
    /\ ipc = "transferring" /\ mpc = "stat"
    /\ ArchivePath(mod) \notin files
    /\ importErrors' = Append(importErrors, mod.modFilename)
    /\ archives' = [archives EXCEPT ![idx] = "statFailed"]
    /\ mpc' = "next"
    /\ UNCHANGED <<mods, metadata, transferArchives, vortexCategories, store,
                   dispatched, shortids, traceFiles, ipc, enpc, modsEx, idx,
                   progressLog, results, addpc,
                   transferVars, resolveVars, parseVars, dialogVars,
                   nameVars, finishVars, selectVars, workVars>>

\* transferArchive: fs.copyAsync(archivePath, downloadPath/basename) resolves
CopyArchiveOk ==
    /\ ipc = "transferring" /\ mpc = "copy"
    /\ "ok" \in OpResults(ArchivePath(mod), join(downloadPath, basename(ArchivePath(mod))))
    /\ files' = files \cup {join(downloadPath, basename(ArchivePath(mod)))}
    /\ archives' = [archives EXCEPT ![idx] = "copied"]
    /\ mpc' = "next"
    /\ UNCHANGED <<mods, metadata, transferArchives, vortexCategories, store,
                   dispatched, shortids, traceFiles, ipc, enpc, modsEx, idx,
                   progressLog, results, importErrors, addpc,
                   variant, mod, nmmLinkPath, keepSource, dirs, pc, fpc, ops,
                   hasTransferredFiles, errors,
                   resolveVars, parseVars, dialogVars, nameVars, finishVars,
                   selectVars, workVars>>

\* transferArchive rejects: .catch(err => errors.push(modFilename))
CopyArchiveFail ==
    /\ ipc = "transferring" /\ mpc = "copy"
    /\ \E r \in OpResults(ArchivePath(mod), join(downloadPath, basename(ArchivePath(mod)))) :
          r # "ok"
    /\ importErrors' = Append(importErrors, mod.modFilename)
    /\ archives' = [archives EXCEPT ![idx] = "copyFailed"]
    /\ mpc' = "next"
    /\ UNCHANGED <<mods, metadata, transferArchives, vortexCategories, store,
                   dispatched, shortids, traceFiles, ipc, enpc, modsEx, idx,
                   progressLog, results, addpc,
                   transferVars, resolveVars, parseVars, dialogVars,
                   nameVars, finishVars, selectVars, workVars>>

\* Promise.mapSeries resolves: the profile is created and addMods is called
SeriesResolved ==
    /\ ipc = "transferring" /\ mpc = "next" /\ idx = Len(modsEx)
    /\ shortids' = shortids + 1
    /\ store' = [store EXCEPT !.profiles = @ \cup {shortids + 1}]
    /\ addpc' = "mapping"
    /\ ipc' = "finishing"
    /\ mpc' = "idle"
    /\ UNCHANGED <<mods, metadata, transferArchives, vortexCategories,
                   dispatched, traceFiles, enpc, modsEx, idx, progressLog,
                   results, archives, importErrors,
                   transferVars, resolveVars, parseVars, dialogVars,
                   nameVars, finishVars, selectVars, workVars>>

\* addMods: Promise.map over the entries resolves, actions.addMods is
\* dispatched with one mod per entry
AddModsResolved ==
    /\ addpc = "mapping"
    /\ store' = [store EXCEPT !.mods =
                    @ \cup {[id |-> substr(modsEx[k].modFilename, 0,
                                            lastIndexOf(modsEx[k].modFilename, ".")),
                             archiveId |-> archiveId(modsEx[k])] : k \in DOMAIN modsEx}]
    /\ addpc' = "done"
    /\ UNCHANGED <<mods, metadata, transferArchives, vortexCategories,
                   dispatched, shortids, traceFiles, ipc, enpc, modsEx, idx, mpc,
                   progressLog, results, archives, importErrors,
                   transferVars, resolveVars, parseVars, dialogVars,
                   nameVars, finishVars, selectVars, workVars>>

\* .then(() => { trace.finish(); return errors; })
Finish ==
    /\ ipc = "finishing"
    /\ ipc' = "resolved"
    /\ UNCHANGED <<mods, metadata, transferArchives, vortexCategories, store,
                   dispatched, shortids, traceFiles, enpc, modsEx, idx, mpc,
                   progressLog, results, archives, importErrors, addpc,
                   transferVars, resolveVars, parseVars, dialogVars,
                   nameVars, finishVars, selectVars, workVars>>

\* the part of importMods that ends when every mod is enhanced
\* getSuccessfullyImported: the enabled mods whose modName is not in
\* failedImports; all of them when failedImports is undefined or empty
getSuccessfullyImported ==
    IF Len(failedImports) = 0 THEN mods
    ELSE SelectSeq(mods, LAMBDA m :
             \A e \in DOMAIN failedImports : failedImports[e] # m.modName)

\* as enableModsForProfile, but without the filter isImported
enableModsForProfile_all(profileId, modEntries) ==
    {[profileId |-> profileId, modId |-> m.id] : m \in store.mods}

\* enableModsForProfile: nothing when the game has no mod list, else
\* setModEnabled(profileId, mod.id, true) for every mod of the list of which
\* the id is the modFilename of an entry up to its last dot
enableModsForProfile(profileId, modEntries) ==
    IF store.mods = {} THEN {}
    ELSE {[profileId |-> profileId, modId |-> m.id] :
             m \in {x \in store.mods :
                       \E e \in DOMAIN modEntries :
                           RegisteredId(modEntries[e]) = x.id}}

\* startImport: importMods resolved, .then(errors => ...) stores the list
\* and the wizard goes to 'review'
StartImportThen ==
    /\ ipc = "resolved" /\ finishPc = "idle"
    /\ failedImports' = importErrors
    /\ finishPc' = "review"
    /\ UNCHANGED <<enableModsOnFinish, selectedProfile, imported, setModEnabled,
                   transferVars, resolveVars, parseVars, importVars, dialogVars,
                   nameVars, selectVars, workVars>>

\* the check box of 'review' is toggled
ToggleEnableModsOnFinish ==
    /\ finishPc = "review"
    /\ enableModsOnFinish' = ~enableModsOnFinish
    /\ UNCHANGED <<failedImports, selectedProfile, imported, setModEnabled,
                   finishPc,
                   transferVars, resolveVars, parseVars, importVars, dialogVars,
                   nameVars, selectVars, workVars>>

\* finish: the mods that were imported are enabled when there are any and
\* enableModsOnFinish is set
FinishReview ==
    /\ finishPc = "review"
    /\ imported' = getSuccessfullyImported
    /\ setModEnabled' =
           IF Len(getSuccessfullyImported) # 0 /\ enableModsOnFinish
           THEN setModEnabled \cup
                    enableModsForProfile(selectedProfile, getSuccessfullyImported)
           ELSE setModEnabled
    /\ finishPc' = "done"
    /\ UNCHANGED <<failedImports, enableModsOnFinish, selectedProfile,
                   transferVars, resolveVars, parseVars, importVars, dialogVars,
                   nameVars, selectVars, workVars>>

CategoryNext ==
    \/ WriteFileOk
    \/ WriteFileFail
    \/ \E k \in DOMAIN mods : ReadCacheInfoOk(k)
    \/ \E k \in DOMAIN mods : ReadCacheInfoFail(k)
    \/ \E k \in DOMAIN mods : ReadInfoXmlFail(k)
    \/ \E k \in DOMAIN mods : ReadInfoXmlOk(k)
    \/ EnhanceResolved

ImportNext ==
    \/ WriteFileOk
    \/ WriteFileFail
    \/ \E k \in DOMAIN mods : ReadCacheInfoOk(k)
    \/ \E k \in DOMAIN mods : ReadCacheInfoFail(k)
    \/ \E k \in DOMAIN mods : ReadInfoXmlFail(k)
    \/ \E k \in DOMAIN mods : ReadInfoXmlOk(k)
    \/ EnhanceResolved
    \/ MapperCall
    \/ EnsureDirsOk
    \/ EnsureDirsFail
    \/ \E i \in Files : PrimaryOk(i)
    \/ \E i \in Files : PrimaryFailRetry(i)
    \/ \E i \in Files : PrimaryFailRecord(i)
    \/ \E i \in Files : FallbackOk(i)
    \/ \E i \in Files : FallbackFail(i)
    \/ \E i \in Files : PrimaryOk001(i)
    \/ \E i \in Files : PrimaryFail001(i)
    \/ \E i \in Files : CatchUnresolved(i)
    \/ FilesSettled
    \/ RemoveOk
    \/ RemoveFail
    \/ TransferResolved
    \/ TransferRejected
    \/ StatArchiveOk
    \/ StatArchiveFail
    \/ CopyArchiveOk
    \/ CopyArchiveFail
    \/ SeriesResolved
    \/ AddModsResolved
    \/ Finish
    \/ StartImportThen
    \/ ToggleEnableModsOnFinish
    \/ FinishReview

\* the mods the mod list of the game may hold when 'review' is reached: the
\* mods of the catalog and a mod that was not imported
PersistentCatalog ==
    {[id |-> RegisteredId(ModCatalog[c]), archiveId |-> NoArchiveId] :
        c \in DOMAIN ModCatalog}
    \cup {[id |-> <<"x">>, archiveId |-> NoArchiveId]}

\* the lists importMods may have resolved with for a selection: the
\* modFilename of some of the mods, in the order of the selection
FailedLists(sel) ==
    {[k \in 1..Cardinality(S) |->
         sel[CHOOSE j \in S : Cardinality({i \in S : i < j}) = k - 1].modFilename] :
        S \in SUBSET DOMAIN sel}

\* the wizard reaches 'review': importMods resolved with a list
FinishInit ==
    /\ autoSortEnabled = FALSE /\ autosortPlugins = TRUE
    /\ downloadWatch = TRUE /\ nmmModsEnabled = FALSE /\ nmmRunning = FALSE
    /\ nmmEnv = [modsEnabled |-> FALSE, running |-> FALSE] /\ loops = <<>>
    /\ opened = 0
    /\ nextImportEnabled = <<>> /\ importArchives = TRUE
    /\ nextImportArchives = TRUE /\ totalNeededBytes = 0 /\ counter = 0
    /\ lastOp = [op |-> "none", id |-> 0]
    /\ dialogRev = "none" /\ importStep = "undefined"
    /\ sources = "undefined" /\ dError = "undefined" /\ parsedMods = NoMods
    /\ modsToImport = NoMods /\ importEnabled = <<>> /\ managed = {}
    /\ breach = FALSE /\ setupPc = "idle" /\ importPc = "idle"
    /\ importCalls = 0
    /\ variant = "none" /\ mod = IdleMod /\ nmmLinkPath = <<>> /\ keepSource = TRUE
    /\ dirs = {} /\ files = {} /\ pc = "idle" /\ fpc = <<>> /\ ops = <<>>
    /\ hasTransferredFiles = FALSE /\ errors = <<>>
    /\ parserRev = 0 /\ manifest = IdleManifest /\ ppc = "idle" /\ epc = <<>>
    /\ eres = <<>> /\ pmeOutcome = "none" /\ outcome = "none" /\ entries = <<>>
    /\ doneOrder = <<>>
    /\ rsInput = IdleInput /\ rsOutput = NotCalled
    /\ modFileName = <<>> /\ res = IdleMod /\ staged = {} /\ registered = {}
    /\ npc = "idle"
    /\ mods \in Selections
    /\ metadata = <<>> /\ transferArchives = TRUE
    /\ vortexCategories = <<>> /\ dispatched = <<>>
    /\ store \in {[IdleStore EXCEPT !.mods = M] : M \in SUBSET PersistentCatalog}
    /\ shortids = 0 /\ traceFiles = {"parsedMods.json"} /\ ipc = "resolved"
    /\ enpc = <<>> /\ modsEx = mods /\ idx = Len(mods) /\ mpc = "idle"
    /\ progressLog = <<>> /\ results = <<>> /\ archives = <<>>
    /\ importErrors \in FailedLists(mods)
    /\ addpc = "done"
    /\ failedImports = importErrors
    /\ enableModsOnFinish = TRUE
    /\ selectedProfile \in {1, 2}
    /\ imported = <<>>
    /\ setModEnabled = {}
    /\ finishPc = "review"

FinishNext ==
    \/ ToggleEnableModsOnFinish
    \/ FinishReview

(***************************************************************************)
(* The import dialog (two revisions): the steps of the wizard              *)
(***************************************************************************)
STEPS == <<"start", "setup", "working", "review">>

\* the archives of the mods directory that the manifest does not list
FolderArchives == {{}, {0}}

isModEnabled(id) ==
    LET enabled == IF id \in DOMAIN importEnabled THEN importEnabled[id]
                   ELSE "undefined"
    IN  enabled # "false" /\ ~(enabled = "undefined" /\ id \in managed)

isNextDisabled ==
    \/ dError # "undefined"
    \/ importStep = "setup" /\ ~modsToImport.defined
    \/ importStep = "setup" /\ {id \in modsToImport.ids : isModEnabled(id)} = {}
    \/ importStep = "setup" /\ breach

\* render: the button is there when sources were found and the step has a label
nextLabel == sources = "found" /\ importStep \in {"start", "setup", "review"}

canCancel ==
    \/ importStep \in {"start", "setup"}
    \/ dialogRev = "part_003" /\ importStep = "working" /\ importPc = "validating"
    \/ dError # "undefined"

\* the wizard is at 'start', start() has called findInstances
DialogInit ==
    /\ autoSortEnabled = FALSE /\ autosortPlugins = TRUE
    /\ downloadWatch = TRUE /\ nmmModsEnabled = FALSE /\ nmmRunning = FALSE
    /\ nmmEnv = [modsEnabled |-> FALSE, running |-> FALSE] /\ loops = <<>>
    /\ opened = 0
    /\ nextImportEnabled = <<>> /\ importArchives = TRUE
    /\ nextImportArchives = TRUE /\ totalNeededBytes = 0 /\ counter = 0
    /\ lastOp = [op |-> "none", id |-> 0]
    /\ failedImports = <<>> /\ enableModsOnFinish = TRUE
    /\ selectedProfile = 1 /\ imported = <<>> /\ setModEnabled = {}
    /\ finishPc = "idle"
    /\ modFileName = <<>> /\ res = IdleMod /\ staged = {}
    /\ registered = {} /\ npc = "idle"
    /\ mods = <<>> /\ metadata = <<>> /\ transferArchives = FALSE
    /\ vortexCategories = <<>> /\ store = IdleStore /\ dispatched = <<>>
    /\ shortids = 0 /\ traceFiles = {} /\ ipc = "idle" /\ enpc = <<>>
    /\ modsEx = <<>> /\ idx = 0 /\ mpc = "idle" /\ progressLog = <<>>
    /\ results = <<>> /\ archives = <<>> /\ importErrors = <<>>
    /\ addpc = "idle"
    /\ variant = "none" /\ mod = IdleMod /\ nmmLinkPath = <<>> /\ keepSource = TRUE
    /\ dirs = {} /\ files = {} /\ pc = "idle" /\ fpc = <<>> /\ ops = <<>>
    /\ hasTransferredFiles = FALSE /\ errors = <<>>
    /\ rsInput = IdleInput /\ rsOutput = NotCalled
    /\ parserRev \in {1, 2}
    /\ manifest \in Manifests
    /\ ppc = "idle"
    /\ epc = [i \in Records |-> "stat"]
    /\ eres = [i \in Records |-> UndefinedEntry]
    /\ pmeOutcome = "none"
    /\ outcome = "none"
    /\ entries = <<>>
    /\ doneOrder = <<>>
    /\ dialogRev \in {"ImportDialog", "part_003"}
    /\ importStep = "start"
    /\ sources = "undefined"
    /\ dError = "undefined"
    /\ parsedMods = NoMods /\ modsToImport = NoMods
    /\ importEnabled = <<>>
    /\ managed \in {{}, {1}}
    /\ breach = FALSE
    /\ setupPc = "idle" /\ importPc = "idle" /\ importCalls = 0

\* start: findInstances resolves, with or without an installation
FindInstancesOk ==
    /\ importStep = "start" /\ sources = "undefined" /\ dError = "undefined"
    /\ sources' \in {"found", "none"}
    /\ UNCHANGED <<dialogRev, importStep, dError, parsedMods, modsToImport,
                   importEnabled, managed, breach, setupPc, importPc,
                   importCalls,
                   transferVars, resolveVars, parseVars, importVars,
                   nameVars, finishVars, selectVars, workVars>>

\* start: findInstances rejects
FindInstancesFail ==
    /\ importStep = "start" /\ sources = "undefined" /\ dError = "undefined"
    /\ dError' = "findInstances"
    /\ UNCHANGED <<dialogRev, importStep, sources, parsedMods, modsToImport,
                   importEnabled, managed, breach, setupPc, importPc,
                   importCalls,
                   transferVars, resolveVars, parseVars, importVars,
                   nameVars, finishVars, selectVars, workVars>>

\* the button is clicked at 'start': next() sets the step 'setup' and
\* componentWillReceiveProps calls setup(), which calls parseNMMConfigFile
NextToSetup ==
    /\ importStep = "start" /\ nextLabel /\ ~isNextDisabled
    /\ importStep' = "setup"
    /\ setupPc' = "parsing"
    /\ ppc' = "read"
    /\ UNCHANGED <<dialogRev, sources, dError, parsedMods, modsToImport,
                   importEnabled, managed, breach, importPc, importCalls,
                   parserRev, manifest, epc, eres, pmeOutcome, outcome, entries,
                   doneOrder,
                   transferVars, resolveVars, importVars, nameVars,
                   finishVars, selectVars, workVars>>

\* setup: parseNMMConfigFile resolves, the entries are stored by file name
SetupParsed ==
    /\ setupPc = "parsing" /\ ppc = "settled" /\ outcome = "entries"
    /\ IF dialogRev = "part_003"
       THEN /\ parsedMods' = [defined |-> TRUE,
                              ids |-> {entries[k].index : k \in DOMAIN entries}]
            /\ UNCHANGED modsToImport
       ELSE /\ modsToImport' = [defined |-> TRUE,
                                ids |-> {entries[k].index : k \in DOMAIN entries}]
            /\ UNCHANGED parsedMods
    /\ setupPc' = "startup"
    /\ UNCHANGED <<dialogRev, importStep, sources, dError, importEnabled,
                   managed, breach, importPc, importCalls,
                   transferVars, resolveVars, parseVars, importVars,
                   nameVars, finishVars, selectVars, workVars>>

\* setup: parseNMMConfigFile rejects with a ParseError.  ImportDialog.tsx:
\* the message becomes state.error.  part_003: .catch(ParseError, () => [])
\* turns the failure into a manifest without mods.
SetupFailed ==
    /\ setupPc = "parsing" /\ ppc = "settled" /\ outcome # "entries"
    /\ IF dialogRev = "part_003"
       THEN /\ parsedMods' = [defined |-> TRUE, ids |-> {}]
            /\ UNCHANGED dError
       ELSE /\ dError' = outcome
            /\ UNCHANGED parsedMods
    /\ setupPc' = "startup"
    /\ UNCHANGED <<dialogRev, importStep, sources, modsToImport, importEnabled,
                   managed, breach, importPc, importCalls,
                   transferVars, resolveVars, parseVars, importVars,
                   nameVars, finishVars, selectVars, workVars>>

\* ImportDialog.tsx, .finally(() => this.onStartUp()): the sizes of the mods
\* are calculated unless there are none
OnStartUp ==
    /\ dialogRev = "ImportDialog" /\ setupPc = "startup"
    /\ breach' \in (IF modsToImport.defined /\ modsToImport.ids # {}
                    THEN BOOLEAN ELSE {FALSE})
    /\ setupPc' = "done"
    /\ UNCHANGED <<dialogRev, importStep, sources, dError, parsedMods,
                   modsToImport, importEnabled, managed, importPc, importCalls,
                   transferVars, resolveVars, parseVars, importVars,
                   nameVars, finishVars, selectVars, workVars>>

\* part_003, onStartUp: populateModsTable adds the archives of the mods
\* directory that the manifest does not list, then the sizes are calculated
OnStartUpArchives ==
    /\ dialogRev = "part_003" /\ setupPc = "startup"
    /\ \E found \in FolderArchives :
          /\ modsToImport' = [defined |-> TRUE, ids |-> parsedMods.ids \cup found]
          /\ breach' \in (IF parsedMods.ids \cup found # {} THEN BOOLEAN ELSE {FALSE})
    /\ setupPc' = "done"
    /\ UNCHANGED <<dialogRev, importStep, sources, dError, parsedMods,
                   importEnabled, managed, importPc, importCalls,
                   transferVars, resolveVars, parseVars, importVars,
                   nameVars, finishVars, selectVars, workVars>>

\* part_003, getArchives: the mods directory cannot be read
OnStartUpArchivesFail ==
    /\ dialogRev = "part_003" /\ setupPc = "startup"
    /\ dError' = "readdir"
    /\ modsToImport' = [defined |-> TRUE, ids |-> parsedMods.ids]
    /\ setupPc' = "done"
    /\ UNCHANGED <<dialogRev, importStep, sources, parsedMods, importEnabled,
                   managed, breach, importPc, importCalls,
                   transferVars, resolveVars, parseVars, importVars,
                   nameVars, finishVars, selectVars, workVars>>

\* the button is clicked at 'setup': next() sets the step 'working' and
\* componentWillReceiveProps calls startImport()
NextToWorking ==
    /\ importStep = "setup" /\ nextLabel /\ ~isNextDisabled
    /\ importStep' = "working"
    /\ importPc' = IF dialogRev = "part_003" THEN "validating" ELSE "init"
    /\ UNCHANGED <<dialogRev, sources, dError, parsedMods, modsToImport,
                   importEnabled, managed, breach, setupPc, importCalls,
                   transferVars, resolveVars, parseVars, importVars,
                   nameVars, finishVars, selectVars, workVars>>

\* startImport: the trace directory and the categories are there (part_003:
\* validateLoop finds that the import can start), the import is called
StartImportProcess ==
    /\ importPc \in {"init", "validating"}
    /\ importStep = "working"
    /\ importCalls' = importCalls + 1
    /\ importPc' = "running"
    /\ UNCHANGED <<dialogRev, importStep, sources, dError, parsedMods,
                   modsToImport, importEnabled, managed, breach, setupPc,
                   transferVars, resolveVars, parseVars, importVars,
                   nameVars, finishVars, selectVars, workVars>>

\* ImportDialog.tsx, startImport: mTrace.initDirectory rejects
TraceInitFail ==
    /\ dialogRev = "ImportDialog" /\ importPc = "init"
    /\ dError' = "initDirectory"
    /\ importPc' = "rejected"
    /\ UNCHANGED <<dialogRev, importStep, sources, parsedMods, modsToImport,
                   importEnabled, managed, breach, setupPc, importCalls,
                   transferVars, resolveVars, parseVars, importVars,
                   nameVars, finishVars, selectVars, workVars>>

\* startImport: the import resolves, the wizard shows the review
ImportResolved ==
    /\ importPc = "running"
    /\ importStep' = "review"
    /\ importPc' = "resolved"
    /\ UNCHANGED <<dialogRev, sources, dError, parsedMods, modsToImport,
                   importEnabled, managed, breach, setupPc, importCalls,
                   transferVars, resolveVars, parseVars, importVars,
                   nameVars, finishVars, selectVars, workVars>>

\* startImport: the import rejects, the message becomes state.error
ImportRejected ==
    /\ importPc = "running"
    /\ dError' = "import"
    /\ importPc' = "rejected"
    /\ UNCHANGED <<dialogRev, importStep, sources, parsedMods, modsToImport,
                   importEnabled, managed, breach, setupPc, importCalls,
                   transferVars, resolveVars, parseVars, importVars,
                   nameVars, finishVars, selectVars, workVars>>

\* the button is clicked at 'review': finish() ends with next(), and the
\* step after 'review' is undefined
FinishClick ==
    /\ importStep = "review" /\ nextLabel /\ ~isNextDisabled
    /\ importStep' = "undefined"
    /\ UNCHANGED <<dialogRev, sources, dError, parsedMods, modsToImport,
                   importEnabled, managed, breach, setupPc, importPc,
                   importCalls,
                   transferVars, resolveVars, parseVars, importVars,
                   nameVars, finishVars, selectVars, workVars>>

\* the Cancel button is clicked
Cancel ==
    /\ importStep # "undefined" /\ canCancel
    /\ importStep' = "undefined"
    /\ UNCHANGED <<dialogRev, sources, dError, parsedMods, modsToImport,
                   importEnabled, managed, breach, setupPc, importPc,
                   importCalls,
                   transferVars, resolveVars, parseVars, importVars,
                   nameVars, finishVars, selectVars, workVars>>

DialogNext ==
    \/ FindInstancesOk
    \/ FindInstancesFail
    \/ NextToSetup
    \/ ReadFileFail
    \/ ParseReject1
    \/ ParseReject2
    \/ ParseStart
    \/ \E i \in Records : StatOk(i)
    \/ \E i \in Records : StatFail1(i)
    \/ \E i \in Records : StatFail2(i)
    \/ \E i \in Records : HashOk(i)
    \/ \E i \in Records : HashFail1(i)
    \/ \E i \in Records : HashFail2(i)
    \/ MapResolved1
    \/ MapResolved2
    \/ SetupParsed
    \/ SetupFailed
    \/ OnStartUp
    \/ OnStartUpArchives
    \/ OnStartUpArchivesFail
    \/ NextToWorking
    \/ StartImportProcess
    \/ TraceInitFail
    \/ ImportResolved
    \/ ImportRejected
    \/ FinishClick
    \/ Cancel

(***************************************************************************)
(* From the archive file name to the directory and to the registered mod   *)
(***************************************************************************)
NameAlphabet == {"m", ".", ":"}

RECURSIVE NamesUpTo(_)
NamesUpTo(n) ==
    IF n = 0 THEN {<<>>}
    ELSE LET shorter == NamesUpTo(n - 1)
         IN  shorter \cup
             {Append(s, c) : s \in {t \in shorter : Len(t) = n - 1},
                             c \in NameAlphabet}

FileNames == NamesUpTo(MaxStrLen) \ {<<>>}

\* path.extname: from the last dot of the last portion of the path, empty
\* when there is no dot or the only dot is the first character
extname(p) ==
    LET b == basename(p)
        dot == lastIndexOf(b, ".")
    IN  IF dot <= 0 \/ b = <<".", ".">> THEN <<>>
        ELSE SubSeq(b, dot + 1, Len(b))

\* path.basename(p, ext): the last portion of the path without the
\* extension when it ends in it
basenameExt(p, ext) ==
    LET b == basename(p)
    IN  IF /\ ext # <<>> /\ Len(b) > Len(ext)
           /\ SubSeq(b, Len(b) - Len(ext) + 1, Len(b)) = ext
        THEN SubSeq(b, 1, Len(b) - Len(ext))
        ELSE b

\* util.deriveInstallName(archiveName, {}): the archive name with the
\* characters that a directory name cannot hold replaced
deriveInstallName(archiveName) ==
    [k \in DOMAIN archiveName |->
        IF archiveName[k] = ":" THEN "_" ELSE archiveName[k]]

InstallNameInit ==
    /\ autoSortEnabled = FALSE /\ autosortPlugins = TRUE
    /\ downloadWatch = TRUE /\ nmmModsEnabled = FALSE /\ nmmRunning = FALSE
    /\ nmmEnv = [modsEnabled |-> FALSE, running |-> FALSE] /\ loops = <<>>
    /\ opened = 0
    /\ nextImportEnabled = <<>> /\ importArchives = TRUE
    /\ nextImportArchives = TRUE /\ totalNeededBytes = 0 /\ counter = 0
    /\ lastOp = [op |-> "none", id |-> 0]
    /\ failedImports = <<>> /\ enableModsOnFinish = TRUE
    /\ selectedProfile = 1 /\ imported = <<>> /\ setModEnabled = {}
    /\ finishPc = "idle"
    /\ dialogRev = "none" /\ importStep = "undefined"
    /\ sources = "undefined" /\ dError = "undefined" /\ parsedMods = NoMods
    /\ modsToImport = NoMods /\ importEnabled = <<>> /\ managed = {}
    /\ breach = FALSE /\ setupPc = "idle" /\ importPc = "idle"
    /\ importCalls = 0
    /\ mods = <<>> /\ metadata = <<>> /\ transferArchives = FALSE
    /\ vortexCategories = <<>> /\ store = IdleStore /\ dispatched = <<>>
    /\ shortids = 0 /\ traceFiles = {} /\ ipc = "idle" /\ enpc = <<>>
    /\ modsEx = <<>> /\ idx = 0 /\ mpc = "idle" /\ progressLog = <<>>
    /\ results = <<>> /\ archives = <<>> /\ importErrors = <<>>
    /\ addpc = "idle"
    /\ variant = "none" /\ mod = IdleMod /\ nmmLinkPath = <<>> /\ keepSource = TRUE
    /\ dirs = {} /\ files = {} /\ pc = "idle" /\ fpc = <<>> /\ ops = <<>>
    /\ hasTransferredFiles = FALSE /\ errors = <<>>
    /\ parserRev = 0 /\ manifest = IdleManifest /\ ppc = "idle" /\ epc = <<>>
    /\ eres = <<>> /\ pmeOutcome = "none" /\ outcome = "none" /\ entries = <<>>
    /\ doneOrder = <<>>
    /\ rsInput = IdleInput /\ rsOutput = NotCalled
    /\ modFileName \in FileNames
    /\ res = IdleMod
    /\ staged = {}
    /\ registered = {}
    /\ npc = "parse"

\* parseModEntries: the entry of the record, with the vortexId derived from
\* the archive name
ParseModInfo ==
    /\ npc = "parse"
    /\ res' = [modFilename |-> modFileName,
               vortexId |-> deriveInstallName(
                                basenameExt(modFileName, extname(modFileName)))]
    /\ npc' = "transfer"
    /\ UNCHANGED <<modFileName, staged, registered,
                   transferVars, resolveVars, parseVars, importVars, dialogVars,
                   finishVars, selectVars, workVars>>

\* transferUnpackedMod: destPath is created
EnsureDestPath ==
    /\ npc = "transfer"
    /\ staged' = staged \cup {join(installPath, res.vortexId)}
    /\ npc' = "register"
    /\ UNCHANGED <<modFileName, res, registered,
                   transferVars, resolveVars, parseVars, importVars, dialogVars,
                   finishVars, selectVars, workVars>>

\* addMods: the mod of the entry is dispatched
RegisterMod ==
    /\ npc = "register"
    /\ registered' = registered \cup
           {[id |-> RegisteredId(res), installationPath |-> RegisteredId(res)]}
    /\ npc' = "done"
    /\ UNCHANGED <<modFileName, res, staged,
                   transferVars, resolveVars, parseVars, importVars, dialogVars,
                   finishVars, selectVars, workVars>>

InstallNameNext ==
    \/ ParseModInfo
    \/ EnsureDestPath
    \/ RegisterMod

(***************************************************************************)
(* The mod table of the setup step: which mods are selected for import,    *)
(* and the size the selection needs                                        *)
(***************************************************************************)
MaxRows == 2
MaxChanges == 3

\* the keys of modsToImport
TableMods == 1..MaxRows

\* calculateModsCapacity: modsCapacity[id].modSizeBytes
ModSizeBytes(id) == 2 ^ (id - 1)

RECURSIVE SumBytes(_)
SumBytes(S) ==
    IF S = {} THEN 0
    ELSE LET id == CHOOSE x \in S : TRUE
         IN  ModSizeBytes(id) + SumBytes(S \ {id})

Flag(b) == IF b THEN "true" ELSE "false"

ValueOf(enabled, id) ==
    IF id \in DOMAIN enabled THEN enabled[id] ELSE "undefined"

SetKey(enabled, id, v) ==
    [k \in DOMAIN enabled \cup {id} |-> IF k = id THEN v ELSE enabled[k]]

\* modWillBeEnabled reads nextState.importEnabled
WillBeEnabled(enabled, id) ==
    /\ ValueOf(enabled, id) # "false"
    /\ ~(ValueOf(enabled, id) = "undefined" /\ id \in managed)

modWillBeEnabled(id) == WillBeEnabled(nextImportEnabled, id)

\* calcModFiles over the pending selection
calcModFiles(enabled) ==
    SumBytes({id \in TableMods : WillBeEnabled(enabled, id)})

\* the value onChangeValue assigns, read from the committed state
ChangedValue(id, value) ==
    IF value = "undefined"
    THEN IF id \in managed
         THEN Flag(~(ValueOf(importEnabled, id) = "true"))
         ELSE Flag(~(ValueOf(importEnabled, id) # "false"))
    ELSE Flag(value = "yes")

\* onChangeValue recalculates for mods that are not managed yet only
TotalAfterChange(id, enabled) ==
    IF id \notin managed THEN calcModFiles(enabled) ELSE totalNeededBytes

\* the setup step shows the table, the sizes of the mods are calculated
SelectInit ==
    /\ autoSortEnabled = FALSE /\ autosortPlugins = TRUE
    /\ downloadWatch = TRUE /\ nmmModsEnabled = FALSE /\ nmmRunning = FALSE
    /\ nmmEnv = [modsEnabled |-> FALSE, running |-> FALSE] /\ loops = <<>>
    /\ opened = 0
    /\ failedImports = <<>> /\ enableModsOnFinish = TRUE
    /\ selectedProfile = 1 /\ imported = <<>> /\ setModEnabled = {}
    /\ finishPc = "idle"
    /\ modFileName = <<>> /\ res = IdleMod /\ staged = {}
    /\ registered = {} /\ npc = "idle"
    /\ mods = <<>> /\ metadata = <<>> /\ transferArchives = FALSE
    /\ vortexCategories = <<>> /\ store = IdleStore /\ dispatched = <<>>
    /\ shortids = 0 /\ traceFiles = {} /\ ipc = "idle" /\ enpc = <<>>
    /\ modsEx = <<>> /\ idx = 0 /\ mpc = "idle" /\ progressLog = <<>>
    /\ results = <<>> /\ archives = <<>> /\ importErrors = <<>>
    /\ addpc = "idle"
    /\ variant = "none" /\ mod = IdleMod /\ nmmLinkPath = <<>> /\ keepSource = TRUE
    /\ dirs = {} /\ files = {} /\ pc = "idle" /\ fpc = <<>> /\ ops = <<>>
    /\ hasTransferredFiles = FALSE /\ errors = <<>>
    /\ rsInput = IdleInput /\ rsOutput = NotCalled
    /\ parserRev = 0 /\ manifest = IdleManifest /\ ppc = "idle" /\ epc = <<>>
    /\ eres = <<>> /\ pmeOutcome = "none" /\ outcome = "none" /\ entries = <<>>
    /\ doneOrder = <<>>
    /\ dialogRev \in {"ImportDialog", "part_003"}
    /\ importStep = "setup"
    /\ sources = "found"
    /\ dError = "undefined"
    /\ parsedMods = [defined |-> TRUE, ids |-> TableMods]
    /\ modsToImport = [defined |-> TRUE, ids |-> TableMods]
    /\ importEnabled = <<>>
    /\ managed \in SUBSET TableMods
    /\ breach = FALSE
    /\ setupPc = "done" /\ importPc = "idle" /\ importCalls = 0
    /\ nextImportEnabled = <<>>
    /\ importArchives = TRUE /\ nextImportArchives = TRUE
    /\ totalNeededBytes = SumBytes(TableMods \ managed)
    /\ counter = 0
    /\ lastOp = [op |-> "none", id |-> 0]

\* onChangeValue(mod, value): the status cell of a row is toggled or set
OnChangeValue ==
    /\ importStep = "setup" /\ counter < MaxChanges
    /\ \E id \in modsToImport.ids, value \in {"undefined", "yes", "no"} :
          /\ nextImportEnabled' =
                 SetKey(nextImportEnabled, id, ChangedValue(id, value))
          /\ totalNeededBytes' = TotalAfterChange(id, nextImportEnabled')
          /\ lastOp' = [op |-> IF value = "undefined" THEN "toggle" ELSE "set",
                        id |-> id]
    /\ counter' = counter + 1
    /\ UNCHANGED <<importArchives, nextImportArchives,
                   transferVars, resolveVars, parseVars, importVars, dialogVars,
                   nameVars, finishVars, workVars>>

\* importSelected, dontImportSelected: onGroupAction(entries, enable)
OnGroupAction ==
    /\ importStep = "setup" /\ modsToImport.defined
    /\ \E keys \in SUBSET modsToImport.ids, enable \in BOOLEAN :
          /\ keys # {}
          /\ nextImportEnabled' =
                 [k \in DOMAIN nextImportEnabled \cup
                        {x \in keys : ValueOf(importEnabled, x) # Flag(enable)} |->
                     IF k \in keys /\ ValueOf(importEnabled, k) # Flag(enable)
                     THEN Flag(enable) ELSE nextImportEnabled[k]]
          /\ lastOp' = [op |-> "group", id |-> 0]
    /\ totalNeededBytes' = calcModFiles(nextImportEnabled')
    /\ UNCHANGED <<importArchives, nextImportArchives, counter,
                   transferVars, resolveVars, parseVars, importVars, dialogVars,
                   nameVars, finishVars, workVars>>

\* toggleArchiveImport
ToggleArchiveImport ==
    /\ importStep = "setup"
    /\ nextImportArchives' = ~importArchives
    /\ totalNeededBytes' = calcModFiles(nextImportEnabled)
    /\ lastOp' = [op |-> "archives", id |-> 0]
    /\ UNCHANGED <<nextImportEnabled, importArchives, counter,
                   transferVars, resolveVars, parseVars, importVars, dialogVars,
                   nameVars, finishVars, workVars>>

\* the component commits nextState: state becomes what the handlers wrote
CommitState ==
    /\ nextImportEnabled # importEnabled \/ nextImportArchives # importArchives
    /\ importEnabled' = nextImportEnabled
    /\ importArchives' = nextImportArchives
    /\ lastOp' = [op |-> "commit", id |-> 0]
    /\ UNCHANGED <<dialogRev, importStep, sources, dError, parsedMods,
                   modsToImport, managed, breach, setupPc, importPc, importCalls,
                   nextImportEnabled, nextImportArchives, totalNeededBytes,
                   counter,
                   transferVars, resolveVars, parseVars, importVars,
                   nameVars, finishVars, workVars>>

SelectNext ==
    \/ OnChangeValue
    \/ OnGroupAction
    \/ ToggleArchiveImport
    \/ CommitState

(***************************************************************************)
(* The working step of the dialog (two revisions): the validation of the   *)
(* archive-import dialog, the import process and the events sent around it *)
(***************************************************************************)
MaxRuns == 2

\* canImport reads state.nmmModsEnabled and state.nmmRunning
canImport == ~nmmModsEnabled /\ ~nmmRunning

NmmReady == [modsEnabled |-> FALSE, running |-> FALSE]

\* render: the Cancel button of the two revisions
cancelShown ==
    \/ importStep \in {"start", "setup"}
    \/ dialogRev = "part_003" /\ importStep = "working" /\ ~canImport
    \/ dError # "undefined"

LoopsAt(stage) == {i \in DOMAIN loops : loops[i].stage = stage}

SetStage(i, stage) == [loops EXCEPT ![i].stage = stage]

\* startImportProcess: auto-sorting is switched back on when the call of
\* startImport found it enabled
AutosortAfterStart(i) == IF loops[i].autoSort THEN TRUE ELSE autosortPlugins

\* the handler of a rejected import sends 'enable-download-watch', true
WatchAfterReject_kept == downloadWatch

WatchAfterReject == TRUE

\* the handler of a resolved import sends 'enable-download-watch', true
WatchAfterResolve == TRUE

\* the wizard was opened: resetStateData and start() have run
WorkInit ==
    /\ nextImportEnabled = <<>> /\ importArchives = TRUE
    /\ nextImportArchives = TRUE /\ totalNeededBytes = 0 /\ counter = 0
    /\ lastOp = [op |-> "none", id |-> 0]
    /\ failedImports = <<>> /\ enableModsOnFinish = TRUE
    /\ selectedProfile = 1 /\ imported = <<>> /\ setModEnabled = {}
    /\ finishPc = "idle"
    /\ modFileName = <<>> /\ res = IdleMod /\ staged = {}
    /\ registered = {} /\ npc = "idle"
    /\ mods = <<>> /\ metadata = <<>> /\ transferArchives = FALSE
    /\ vortexCategories = <<>> /\ store = IdleStore /\ dispatched = <<>>
    /\ shortids = 0 /\ traceFiles = {} /\ ipc = "idle" /\ enpc = <<>>
    /\ modsEx = <<>> /\ idx = 0 /\ mpc = "idle" /\ progressLog = <<>>
    /\ results = <<>> /\ archives = <<>> /\ importErrors = <<>>
    /\ addpc = "idle"
    /\ variant = "none" /\ mod = IdleMod /\ nmmLinkPath = <<>> /\ keepSource = TRUE
    /\ dirs = {} /\ files = {} /\ pc = "idle" /\ fpc = <<>> /\ ops = <<>>
    /\ hasTransferredFiles = FALSE /\ errors = <<>>
    /\ rsInput = IdleInput /\ rsOutput = NotCalled
    /\ parserRev = 0 /\ manifest = IdleManifest /\ ppc = "idle" /\ epc = <<>>
    /\ eres = <<>> /\ pmeOutcome = "none" /\ outcome = "none" /\ entries = <<>>
    /\ doneOrder = <<>>
    /\ dialogRev \in {"ImportDialog", "part_003"}
    /\ importStep = "start"
    /\ sources = "found"
    /\ dError = "undefined"
    /\ parsedMods = NoMods /\ modsToImport = NoMods
    /\ importEnabled = <<>>
    /\ managed = {}
    /\ breach = FALSE
    /\ setupPc = "idle" /\ importPc = "idle" /\ importCalls = 0
    /\ autoSortEnabled \in (IF dialogRev = "part_003" THEN BOOLEAN ELSE {FALSE})
    /\ autosortPlugins = autoSortEnabled
    /\ downloadWatch = TRUE
    /\ nmmModsEnabled = FALSE /\ nmmRunning = FALSE
    /\ nmmEnv \in [modsEnabled : BOOLEAN, running : BOOLEAN]
    /\ loops = <<>>
    /\ opened = 1

\* the wizard is opened again: componentWillReceiveProps at 'start' runs
\* resetStateData and start(), which reads the setting of the plugin sorting
\* as the events have left it
OpenWizard ==
    /\ importStep = "undefined" /\ opened < MaxRuns
    /\ importStep' = "start"
    /\ dError' = "undefined"
    /\ autoSortEnabled' = (dialogRev = "part_003" /\ autosortPlugins)
    /\ opened' = opened + 1
    /\ UNCHANGED <<dialogRev, sources, parsedMods, modsToImport, importEnabled,
                   managed, breach, setupPc, importPc, importCalls,
                   autosortPlugins, downloadWatch, nmmModsEnabled, nmmRunning,
                   nmmEnv, loops,
                   transferVars, resolveVars, parseVars, importVars,
                   nameVars, finishVars, selectVars>>

\* next() at 'start'
ShowSetup ==
    /\ importStep = "start" /\ dError = "undefined"
    /\ importStep' = "setup"
    /\ UNCHANGED <<dialogRev, sources, dError, parsedMods, modsToImport,
                   importEnabled, managed, breach, setupPc, importPc,
                   importCalls, workVars,
                   transferVars, resolveVars, parseVars, importVars,
                   nameVars, finishVars, selectVars>>

\* next() at 'setup': componentWillReceiveProps calls startImport. The
\* archive-import dialog switches auto-sorting off and asks isConfigEmpty,
\* the mod-import dialog starts the import
StartImport ==
    /\ importStep = "setup" /\ dError = "undefined"
    /\ importStep' = "working"
    /\ IF dialogRev = "part_003"
       THEN /\ autosortPlugins' = IF autoSortEnabled THEN FALSE
                                  ELSE autosortPlugins
            /\ loops' = Append(loops, [stage |-> "check",
                                       autoSort |-> autoSortEnabled])
            /\ UNCHANGED downloadWatch
       ELSE /\ loops' = Append(loops, [stage |-> "import", autoSort |-> FALSE])
            /\ downloadWatch' = FALSE
            /\ UNCHANGED autosortPlugins
    /\ UNCHANGED <<dialogRev, sources, dError, parsedMods, modsToImport,
                   importEnabled, managed, breach, setupPc, importPc,
                   importCalls,
                   autoSortEnabled, nmmModsEnabled, nmmRunning, nmmEnv, opened,
                   transferVars, resolveVars, parseVars, importVars,
                   nameVars, finishVars, selectVars>>

\* startImport: isConfigEmpty resolves, the state is updated and
\* validateLoop runs for the first time
ConfigChecked ==
    /\ \E i \in LoopsAt("check") :
          /\ nmmModsEnabled' = nmmEnv.modsEnabled
          /\ nmmRunning' = nmmEnv.running
          /\ IF ~nmmEnv.modsEnabled /\ ~nmmEnv.running
             THEN /\ loops' = SetStage(i, "import")
                  /\ autosortPlugins' = AutosortAfterStart(i)
                  /\ downloadWatch' = FALSE
             ELSE /\ loops' = SetStage(i, "timer")
                  /\ UNCHANGED <<autosortPlugins, downloadWatch>>
    /\ UNCHANGED <<autoSortEnabled, nmmEnv, opened,
                   transferVars, resolveVars, parseVars, importVars, dialogVars,
                   nameVars, finishVars, selectVars>>

\* validateLoop after its timeout: the import starts when canImport holds
\* (the loop that sets the next timeout leaves the state as it is)
ValidateLoop ==
    /\ canImport
    /\ \E i \in LoopsAt("timer") :
          /\ loops' = SetStage(i, "import")
          /\ autosortPlugins' = AutosortAfterStart(i)
    /\ downloadWatch' = FALSE
    /\ UNCHANGED <<autoSortEnabled, nmmModsEnabled, nmmRunning, nmmEnv, opened,
                   transferVars, resolveVars, parseVars, importVars, dialogVars,
                   nameVars, finishVars, selectVars>>

\* validate: 'Check again' of the validation page
Validate ==
    /\ dialogRev = "part_003" /\ importStep = "working" /\ ~canImport
    /\ dError = "undefined"
    /\ nmmModsEnabled' = nmmEnv.modsEnabled
    /\ nmmRunning' = nmmEnv.running
    /\ UNCHANGED <<autoSortEnabled, autosortPlugins, downloadWatch, nmmEnv,
                   loops, opened,
                   transferVars, resolveVars, parseVars, importVars, dialogVars,
                   nameVars, finishVars, selectVars>>

\* the user closes NMM and disables its mods
NmmClosed ==
    /\ nmmEnv # NmmReady
    /\ nmmEnv' \in {e \in [modsEnabled : BOOLEAN, running : BOOLEAN] :
                       /\ e # nmmEnv
                       /\ e.modsEnabled => nmmEnv.modsEnabled
                       /\ e.running => nmmEnv.running}
    /\ UNCHANGED <<autoSortEnabled, autosortPlugins, downloadWatch,
                   nmmModsEnabled, nmmRunning, loops, opened,
                   transferVars, resolveVars, parseVars, importVars, dialogVars,
                   nameVars, finishVars, selectVars>>

\* the import resolves: download watching is enabled, the review is shown
ImportThen ==
    /\ \E i \in LoopsAt("import") : loops' = SetStage(i, "done")
    /\ downloadWatch' = WatchAfterResolve
    /\ importStep' = "review"
    /\ UNCHANGED <<dialogRev, sources, dError, parsedMods, modsToImport,
                   importEnabled, managed, breach, setupPc, importPc,
                   importCalls,
                   autoSortEnabled, autosortPlugins, nmmModsEnabled, nmmRunning,
                   nmmEnv, opened,
                   transferVars, resolveVars, parseVars, importVars,
                   nameVars, finishVars, selectVars>>

\* the import rejects: download watching is enabled, the error is shown
ImportCatch ==
    /\ \E i \in LoopsAt("import") : loops' = SetStage(i, "done")
    /\ downloadWatch' = WatchAfterReject
    /\ dError' = "import"
    /\ UNCHANGED <<dialogRev, importStep, sources, parsedMods, modsToImport,
                   importEnabled, managed, breach, setupPc, importPc,
                   importCalls,
                   autoSortEnabled, autosortPlugins, nmmModsEnabled, nmmRunning,
                   nmmEnv, opened,
                   transferVars, resolveVars, parseVars, importVars,
                   nameVars, finishVars, selectVars>>

\* cancel: onSetStep(undefined) and nothing else
CancelWizard ==
    /\ importStep # "undefined" /\ cancelShown
    /\ importStep' = "undefined"
    /\ UNCHANGED <<dialogRev, sources, dError, parsedMods, modsToImport,
                   importEnabled, managed, breach, setupPc, importPc,
                   importCalls, workVars,
                   transferVars, resolveVars, parseVars, importVars,
                   nameVars, finishVars, selectVars>>

\* finish() at 'review' ends with next(): the wizard closes
CloseReview ==
    /\ importStep = "review" /\ dError = "undefined"
    /\ importStep' = "undefined"
    /\ UNCHANGED <<dialogRev, sources, dError, parsedMods, modsToImport,
                   importEnabled, managed, breach, setupPc, importPc,
                   importCalls, workVars,
                   transferVars, resolveVars, parseVars, importVars,
                   nameVars, finishVars, selectVars>>

WorkNext ==
    \/ OpenWizard
    \/ ShowSetup
    \/ StartImport
    \/ ConfigChecked
    \/ ValidateLoop
    \/ Validate
    \/ NmmClosed
    \/ ImportThen
    \/ ImportCatch
    \/ CancelWizard
    \/ CloseReview

(***************************************************************************)
(* Specifications: one per component                                       *)
(***************************************************************************)
SpecTransfer == TransferInit /\ [][TransferNext]_vars

SpecResolve == ResolveInit /\ [][ResolveNext]_vars

SpecParse == ParseInit /\ [][ParseNext]_vars

SpecCategory == CategoryInit /\ [][CategoryNext]_vars

SpecImport == ImportInit /\ [][ImportNext]_vars

SpecDialog == DialogInit /\ [][DialogNext]_vars

SpecSelect == SelectInit /\ [][SelectNext]_vars

SpecWork == WorkInit /\ [][WorkNext]_vars

\* promises settle and timeouts expire; of the user the specification
\* expects only that NMM gets closed and 'Check again' is clicked when shown
SpecWorkFair ==
    /\ WorkInit /\ [][WorkNext]_vars
    /\ WF_vars(ConfigChecked) /\ WF_vars(ValidateLoop)
    /\ WF_vars(ImportThen \/ ImportCatch)
    /\ WF_vars(NmmClosed) /\ WF_vars(Validate)

SpecInstallName == InstallNameInit /\ [][InstallNameNext]_vars

SpecFinish == FinishInit /\ [][FinishNext]_vars

(***************************************************************************)
(* Properties of transferUnpackedMod (SpecTransfer)                        *)
(***************************************************************************)
Transferred(i) == \E k \in DOMAIN ops[i] : ops[i][k].res = "ok"

ErrorsFor(i) == {k \in DOMAIN errors : errors[k].file = i}

FallbackOps(i) == {k \in DOMAIN ops[i] : ops[i][k].root = "fallback"}

Occurrences(s, t) == {k \in 0..(Len(s) - Len(t)) : SubSeq(s, k + 1, k + Len(t)) = t}

\* C1: on completion hasTransferredFiles is true if and only if the copy or
\* move of at least one file succeeded; a mod with a single file link with a
\* relative destination whose copy succeeded completes with
\* hasTransferredFiles = true and no errors.
C1_TransferredIffCopied ==
    pc = "done" =>
        /\ hasTransferredFiles <=> \E i \in Files : Transferred(i)
        /\ ( /\ Len(mod.fileEntries) = 1
             /\ ~isAbsolute(mod.fileEntries[1].fileDestination)
             /\ Transferred(1) )
           => (hasTransferredFiles /\ errors = <<>>)

\* C2: when transferUnpackedMod resolves and no file was transferred, the
\* destination directory of the mod (and all below it) is gone, or the
\* failure to remove it is in the errors of the result.
C2_ZeroTransferredCleansUp ==
    (pc = "done" /\ \A i \in Files : ~Transferred(i)) =>
        \/ /\ destPath \notin dirs
           /\ \A d \in dirs : ~IsUnder(d, destPath)
           /\ \A f \in files : ~IsUnder(f, destPath)
        \/ \E k \in DOMAIN errors : errors[k].source = <<"cleanup">>

C2_Witness ==
    /\ pc = "done"
    /\ \E i \in Files : Len(ops[i]) >= 1
    /\ \A i \in Files : ~Transferred(i)
    /\ destPath \notin dirs

\* C33: the clean-up runs only when no file operation of the mod succeeded:
\* the destination directory is not removed after a file was copied or
\* moved into it.
C33_NoCleanupAfterSuccess ==
    pc = "removing" => \A i \in Files : ~Transferred(i)

\* C3: a failing file never makes the promise of transferUnpackedMod reject
\* (only a failing directory creation, before any file is attempted, does);
\* when it resolves, every file link was attempted or failed to resolve and
\* errors holds exactly one entry for each file that was not transferred.
C3_FileFailureNeverAborts ==
    /\ pc = "rejected" => \A i \in Files : fpc[i] = "wait"
    /\ pc = "done" =>
          \A i \in Files :
              /\ fpc[i] = "fulfilled"
              /\ Cardinality(ErrorsFor(i)) = IF Transferred(i) THEN 0 ELSE 1

\* C4: for every file, there is at most one attempt from the fallback root,
\* to the destination of the primary attempt, and there is one if and only
\* if the primary attempt failed with ENOENT and a fallback root is
\* configured; a file transferred by the fallback attempt has no error
\* recorded and hasTransferredFiles is true on completion.
C4_FallbackExactlyOnce ==
    \A i \in Files :
        /\ Cardinality(FallbackOps(i)) <= 1
        /\ (Len(ops[i]) >= 1 /\ ops[i][1].res # "pending") =>
              ( FallbackOps(i) # {}
                <=> (ops[i][1].res = "ENOENT" /\ nmmLinkPath # <<>>) )
        /\ \A k \in FallbackOps(i) :
              /\ ops[i][k].dst = ops[i][1].dst
              /\ ops[i][k].src = join(nmmLinkPath, mod.fileEntries[i].fileSource)
        /\ (pc = "done" /\ \E k \in FallbackOps(i) : ops[i][k].res = "ok") =>
              (ErrorsFor(i) = {} /\ hasTransferredFiles)

\* C5: every operation issued for a file link whose declared destination is
\* not absolute copies from root + declared source to destPath + declared
\* destination.
C5_RelativeDestinationVerbatim ==
    \A i \in Files :
        ~isAbsolute(mod.fileEntries[i].fileDestination) =>
            \A k \in DOMAIN ops[i] :
                /\ ops[i][k].dst = destPath \o <<Sep>> \o mod.fileEntries[i].fileDestination
                /\ ops[i][k].src =
                      (IF ops[i][k].root = "primary" THEN nmmVirtualPath ELSE nmmLinkPath)
                      \o <<Sep>> \o mod.fileEntries[i].fileSource

\* neither the display name nor the download id of the mod occurs in the
\* source path of a file link with an absolute destination
Unresolvable(i) ==
    /\ isAbsolute(mod.fileEntries[i].fileDestination)
    /\ Occurrences(mod.fileEntries[i].fileSource, mod.modName) = {}
    /\ \/ mod.downloadId = NoDownloadId
       \/ Occurrences(mod.fileEntries[i].fileSource, toString(mod.downloadId)) = {}

\* C7: (part_001) for a file link whose root cannot be identified no copy or
\* move is ever issued, from either root; its promise does not reject and
\* exactly one error is recorded for it once it is handled; the primary
\* operation of every other file link of the mod is issued all the same.
C7_UnresolvedFileSkipped ==
    variant = "part_001" =>
        \A i \in Files :
            Unresolvable(i) =>
                /\ ops[i] = <<>>
                /\ fpc[i] \in {"wait", "unresolved", "fulfilled"}
                /\ Cardinality(ErrorsFor(i)) = IF fpc[i] = "fulfilled" THEN 1 ELSE 0
                /\ pc = "done" => fpc[i] = "fulfilled"
                /\ \A j \in Files :
                      (~Unresolvable(j) /\ fpc[i] # "wait") =>
                          (Len(ops[j]) = 1 /\ ops[j][1].root = "primary")

C7_Witness ==
    /\ variant = "part_001"
    /\ pc = "done"
    /\ \E i \in Files : Unresolvable(i) /\ Cardinality(ErrorsFor(i)) = 1
    /\ \E j \in Files : Transferred(j)

(***************************************************************************)
(* Properties of the path resolution (SpecResolve)                         *)
(***************************************************************************)
Called == rsOutput # NotCalled

\* t is a whole path segment of s starting at the 0-based position k
SegmentStarts(s, t) ==
    {k \in Occurrences(s, t) :
        /\ (k = 0 \/ s[k] = Sep)
        /\ (k + Len(t) = Len(s) \/ s[k + Len(t) + 1] = Sep)}

\* what follows the k-th character of s
Suffix(s, k) == [j \in 1..(Len(s) - k) |-> s[j + k]]

RemainderAfterSegment(s, t) == Suffix(s, Min(SegmentStarts(s, t)) + Len(t) + 1)

RemainderAfterOccurrence(s, t) == Suffix(s, Min(Occurrences(s, t)) + Len(t) + 1)

C8_VersionMismatchUnsupported ==
    ( /\ ppc = "settled"
      /\ manifest.readable /\ manifest.hasRoot
      /\ manifest.fileVersion # SupportedVersion )
    => (pmeOutcome = "Unsupported" /\ outcome = "Unsupported" /\ entries = <<>>)

\* C9: parseNMMConfigFile fails with NotFound if and only if the manifest
\* cannot be read; a readable manifest gives Malformed, Unsupported, Empty
\* or entries.
C9_NotFoundIffUnreadable ==
    ppc = "settled" =>
        /\ outcome = "NotFound" <=> ~manifest.readable
        /\ manifest.readable =>
              outcome = IF ~manifest.hasRoot THEN "Malformed"
                        ELSE IF manifest.fileVersion # SupportedVersion
                             THEN "Unsupported"
                        ELSE IF manifest.records = <<>> THEN "Empty"
                        ELSE "entries"

\* C10: a valid manifest with n records yields n entries, in which an entry
\* whose hash could not be computed has archiveMD5 null.
C10_HashFailureKeepsEntry ==
    outcome = "entries" =>
        /\ Len(entries) = Len(manifest.records)
        /\ \A i \in Records :
              /\ entries[i].index = i
              /\ ~manifest.records[i].hashOk => entries[i].archiveMD5 = "null"

\* C11: the entries returned by the parser are in the order of the records
\* of the manifest, in whatever order the stat and hash operations of the
\* records complete.
C11_ManifestOrder ==
    outcome = "entries" =>
        \A a, b \in DOMAIN entries : a < b => entries[a].index < entries[b].index

\* the mappers resolved in another order than the manifest declares
C11_Witness ==
    /\ outcome = "entries"
    /\ Len(entries) >= 2
    /\ \E a, b \in DOMAIN doneOrder : a < b /\ doneOrder[a] > doneOrder[b]
    /\ \A a, b \in DOMAIN entries : a < b => entries[a].index < entries[b].index

(***************************************************************************)
(* Properties of the category reconciliation (SpecCategory)                *)
(***************************************************************************)
\* the enhance of mod k has looked the legacy category of the mod up
Looked(k) ==
    /\ enpc[k] = "done"
    /\ "categoryId" \in DOMAIN modsEx[k]
    /\ metadata[k].category # NoName

\* no category of the destination had the name when the run started
Unseen(name) == \A c \in Nodes(vortexCategories) : c.name # name

\* C12: two lookups of distinct names that no destination category has are
\* never given the same new id, and no category node, whether it existed
\* before the run or was created by it, is overwritten with another name.
C12_DistinctNewIds ==
    /\ \A j, k \in DOMAIN mods :
          (/\ Looked(j) /\ Looked(k)
           /\ Unseen(metadata[j].category) /\ Unseen(metadata[k].category)
           /\ metadata[j].category # metadata[k].category)
          => modsEx[j].categoryId # modsEx[k].categoryId
    /\ \A a, b \in DOMAIN dispatched :
          dispatched[a].id = dispatched[b].id => dispatched[a].name = dispatched[b].name
    /\ \A c \in Nodes(vortexCategories) : c \in store.categories

\* C13: looking the same unseen name up again returns the id of the first
\* lookup and creates nothing: the categories of the store stay as they
\* are.
C13_RepeatedLookupCreatesNothing ==
    [][\A k \in DOMAIN mods :
          (/\ enpc[k] = "infoXml" /\ enpc'[k] = "done" /\ metadata[k].infoXml
           /\ Unseen(metadata[k].category)
           /\ \E j \in DOMAIN mods :
                 Looked(j) /\ metadata[j].category = metadata[k].category)
          => /\ store'.categories = store.categories
             /\ \A j \in DOMAIN mods :
                   Looked(j) /\ metadata[j].category = metadata[k].category
                   => modsEx'[k].categoryId = modsEx[j].categoryId]_vars

\* C14: a lookup of a name that a category of the destination has, letter
\* case included, returns the id of a category with exactly that name and
\* leaves the categories of the store as they are: neither the root node
\* nor a child is created.
C14_ExistingCategoryReused ==
    [][\A k \in DOMAIN mods :
          (/\ enpc[k] = "infoXml" /\ enpc'[k] = "done" /\ metadata[k].infoXml
           /\ \E c \in store.categories : c.name = metadata[k].category)
          => /\ store'.categories = store.categories
             /\ \E c \in store.categories :
                   /\ c.id = modsEx'[k].categoryId
                   /\ c.name = metadata[k].category]_vars

\* a mod was given the id of the category "Armor" that existed before the
\* run next to a category "armor", and no root node was created
C14_Witness ==
    /\ \E c \in Nodes(vortexCategories) : c.name = "armor"
    /\ \E k \in DOMAIN mods :
          /\ Looked(k)
          /\ metadata[k].category = "Armor"
          /\ modsEx[k].categoryId = <<"cat", 2>>
    /\ \A c \in store.categories : c.id # RootCategory

(***************************************************************************)
(* Properties of importMods (SpecImport)                                   *)
(***************************************************************************)
ArchiveSettled(k) == archives[k] \in {"copied", "statFailed", "copyFailed"}

ArchiveFailed(k) == archives[k] \in {"statFailed", "copyFailed"}

\* the transfer of the files of mod k resolved with a failure of a file
FileFailed(k) ==
    /\ k <= Len(results)
    /\ \E e \in DOMAIN results[k].errors : results[k].errors[e].file # 0

SnapshotWritten == "parsedMods.json" \in traceFiles

\* C15: the mods are transferred one at a time in the order of the
\* selection: progress is reported with the name of the mod and the indices
\* 0, 1, 2, ... when the transfer of the mod starts, and when the mapper is
\* called for a mod, the files of every earlier mod are settled and, when
\* archives are transferred, so is its archive.
C15_OneAtATimeInOrder ==
    /\ Len(progressLog) = idx
    /\ \A k \in 1..idx : progressLog[k] = [mod |-> mods[k].modName, idx |-> k - 1]
    /\ idx > 0 => mod.modName = mods[idx].modName
    /\ \A k \in 1..(idx - 1) :
          /\ k <= Len(results)
          /\ transferArchives => ArchiveSettled(k)
    /\ pc = "start" => \A i \in Files : fpc[i] = "wait"
    /\ pc \in {"start", "files", "removing"} => mpc = "transfer" /\ Len(results) = idx - 1

\* the transfer of the second mod runs after the archive of the first mod
\* was copied
C15_Witness ==
    /\ idx = 2 /\ mpc = "transfer" /\ pc = "files"
    /\ transferArchives /\ archives[1] = "copied"
    /\ progressLog[2].idx = 1

\* C16: when importMods resolves, the list it returns holds the display
\* names of exactly the mods of which a file or the archive failed.
C16_ReturnsFailedModNames ==
    ipc = "resolved" =>
        {importErrors[e] : e \in DOMAIN importErrors} =
            {mods[k].modName : k \in {j \in DOMAIN mods : FileFailed(j) \/ ArchiveFailed(j)}}

\* C17: importMods does not reject because a file, a directory or an archive
\* of a mod failed: once the snapshot is written it does not reject.
C17_NeverRejectsOnModFailure ==
    ipc = "rejected" => ~SnapshotWritten

\* C18: no directory is created, no file or archive is transferred and no
\* transfer is started unless parsedMods.json has been written; when the
\* write fails the disk and the store stay as they were.
C18_SnapshotBeforeTransfer ==
    ~SnapshotWritten =>
        /\ idx = 0 /\ pc = "idle" /\ progressLog = <<>>
        /\ dirs = {installPath, downloadPath, modsPath}
        /\ \A f \in files : ~IsUnder(f, installPath) /\ ~IsUnder(f, downloadPath)
        /\ store.downloads = {} /\ store.mods = {} /\ dispatched = <<>>

\* the first file of the run is being copied, and the snapshot is there
C18_Witness ==
    /\ SnapshotWritten
    /\ idx = 1 /\ pc = "files"
    /\ \E i \in Files : fpc[i] = "primary"

\* C20: when fs.statAsync or the copy of the archive of a mod fails, the
\* file name of the mod is appended to the returned list, nothing on disk
\* changes, the result of the transfer of its files stays, and the mapper
\* resolves so that the run goes on; the archive is attempted whatever the
\* transfer of the files resolved with; importMods resolves only when the
\* mapper was called for every mod.
C20_ArchiveFailureIsLocal ==
    /\ [](ipc = "resolved" => idx = Len(mods))
    /\ [][/\ ((/\ mpc \in {"stat", "copy"}
                /\ mpc' \notin {"stat", "copy"}
                /\ archives'[idx] # "copied")
               => (/\ importErrors' = Append(importErrors, mod.modFilename)
                   /\ files' = files /\ dirs' = dirs /\ results' = results
                   /\ ipc' = "transferring" /\ mpc' = "next"))
           /\ ((/\ mpc = "transfer" /\ mpc' # "transfer"
                /\ pc = "done" /\ transferArchives)
               => mpc' = "stat")]_vars

\* the archive of the first mod failed after one of its files was
\* transferred, the file is still there, and the second mod was transferred
C20_Witness ==
    /\ Len(mods) >= 2 /\ Len(results) = 2
    /\ ArchiveFailed(1)
    /\ results[1].hasTransferredFiles
    /\ \E f \in files : IsUnder(f, join(installPath, mods[1].vortexId))
    /\ results[2].hasTransferredFiles

\* C21: when the mods are registered a profile was created, and a mod of
\* which no file was transferred is not among the registered mods.
C21_RegistersProcessedOnly ==
    addpc = "done" =>
        /\ store.profiles # {}
        /\ \A k \in DOMAIN modsEx :
              ~results[k].hasTransferredFiles =>
                  \A r \in store.mods : r.id # RegisteredId(modsEx[k])

\* C22: what the destination held of an already managed mod before the run
\* is still there during and after the transfer of the mod, also when no
\* file of the mod was transferred and the clean-up ran.
C22_InstalledDataKept ==
    /\ Installed(mod).dirs \subseteq dirs
    /\ Installed(mod).files \subseteq files

\* a file of the legacy installation: under the primary root, under the
\* fallback root or in the folder of the archives
IsSource(f) ==
    IsUnder(f, nmmVirtualPath) \/ IsUnder(f, LinkRoot) \/ IsUnder(f, modsPath)

\* C23: importMods transfers in copy mode, and no step of a run removes a
\* file of the legacy installation: the files under the primary and the
\* fallback root and the archives stay, whatever succeeds or fails.
C23_SourcesKept ==
    /\ [](ipc # "idle" => keepSource)
    /\ [][\A f \in files : IsSource(f) => f \in files']_vars

\* the run resolved after a file and an archive were copied and another
\* archive failed, and the copied file is still under the primary root
C23_Witness ==
    /\ ipc = "resolved"
    /\ \E k \in DOMAIN mods :
          /\ archives[k] = "copied"
          /\ results[k].hasTransferredFiles
          /\ join(nmmVirtualPath, mods[k].fileEntries[1].fileSource) \in files
          /\ ArchivePath(mods[k]) \in files
    /\ \E k \in DOMAIN mods : ArchiveFailed(k)

\* the destination directory of the k-th selected mod
ModDir(k) == join(installPath, mods[k].vortexId)

\* C24: a step removes a file or a directory only as the clean-up of the
\* mod that is being transferred, and then only the destination directory
\* of that mod and what is in it; what is in the destination directory of
\* another mod of the selection stays as it is.
C24_CleanupIsLocal ==
    [][/\ \A f \in files \ files' : pc = "removing" /\ IsUnder(f, destPath)
       /\ \A d \in dirs \ dirs' :
             pc = "removing" /\ (d = destPath \/ IsUnder(d, destPath))
       /\ \A k \in DOMAIN mods :
             k # idx =>
                /\ \A f \in files : IsUnder(f, ModDir(k)) => f \in files'
                /\ \A d \in dirs :
                      (d = ModDir(k) \/ IsUnder(d, ModDir(k))) => d \in dirs']_vars

\* the directory of the second mod was removed because none of its files was
\* transferred, and the file of the first mod is still in its directory
C24_Witness ==
    /\ idx = 2 /\ pc = "done" /\ ~hasTransferredFiles
    /\ destPath \notin dirs
    /\ \E i \in Files : Len(ops[i]) >= 1
    /\ results[1].hasTransferredFiles
    /\ \E f \in files : IsUnder(f, ModDir(1))

\* cacheInfo.txt or fomod/info.xml of the k-th selected mod cannot be read
Unreadable(k) == ~metadata[k].cacheInfo \/ ~metadata[k].infoXml

\* C25: when cacheInfo.txt or fomod/info.xml of a mod cannot be read,
\* enhance resolves with the entry as the manifest gave it, the run does not
\* reject while the mods are enriched, and the mapper of the transfer is
\* called with that entry as with any other: a run that resolves has a
\* result of the transfer of the mod.
C25_MissingMetadataTolerated ==
    /\ [](\A k \in DOMAIN mods :
            Unreadable(k) =>
               /\ enpc[k] = "done" => modsEx[k] = mods[k]
               /\ (idx = k /\ mpc = "transfer") => mod = mods[k] /\ pc # "idle"
               /\ ipc = "resolved" => k <= Len(results))
    /\ [][ipc = "enhancing" => ipc' \in {"enhancing", "transferring"}]_vars

\* a mod without info.xml was enriched to itself and a file of it was
\* transferred
C25_Witness ==
    \E k \in DOMAIN mods :
        /\ Unreadable(k) /\ enpc[k] = "done" /\ modsEx[k] = mods[k]
        /\ k <= Len(results) /\ results[k].hasTransferredFiles
        /\ \E f \in files : IsUnder(f, ModDir(k))

\* C26: while the files of a mod are transferred, the destination directory
\* of the mod and the directory of the target of every file operation that
\* was issued exist, and no file operation fails because the directory of
\* its target is missing.
C26_TargetDirectoriesCreated ==
    pc = "files" =>
        /\ destPath \in dirs
        /\ \A i \in Files : \A k \in DOMAIN ops[i] :
              /\ dirname(ops[i][k].dst) \in dirs
              /\ (ops[i][k].res = "ENOENT") => ops[i][k].src \notin files

\* C27: a run that has written the snapshot of the manifest and has ended,
\* by resolving or by rejecting, has reported progress for every selected
\* mod: it does not end part-way through the selection.
C27_EverySelectedModAttempted ==
    (ipc \in {"resolved", "rejected"} /\ SnapshotWritten) =>
        Len(progressLog) = Len(mods)

\* C29: the list getSuccessfullyImported returns to finish holds exactly
\* the selected mods of which no file failed to be imported; whether the
\* archive of a mod failed makes no difference.
C29_ImportedAreModsWithoutFileFailure ==
    finishPc = "done" =>
        {imported[e].modName : e \in DOMAIN imported} =
            {mods[k].modName : k \in {j \in DOMAIN mods : ~FileFailed(j)}}

\* C31: every archive in the registry of downloads is registered under an
\* archive id that is defined and that no archive of another mod of the run
\* is registered under, also when the metadata of the mod could not be read.
C31_ArchiveIdsDefinedAndDistinct ==
    \A a \in store.downloads :
        /\ a.id # NoArchiveId
        /\ \A b \in store.downloads : a.file # b.file => a.id # b.id

\* the positions of dispatched at which the root node nmm_0 is set
RootDispatches == {a \in DOMAIN dispatched : dispatched[a].id = RootCategory}

\* C32: the root node nmm_0 is set at most once in a run, and not at all
\* when the destination had it before the run; a child that is created
\* gets an id that neither the destination nor an earlier lookup of the run
\* uses.
C32_RootCreatedAtMostOnce ==
    /\ Cardinality(RootDispatches) <= 1
    /\ RootCategory \in CategoryKeys => RootDispatches = {}
    /\ \A a \in DOMAIN dispatched :
          (dispatched[a].type = "setCategory" /\ dispatched[a].id # RootCategory)
          => /\ dispatched[a].id \notin CategoryKeys
             /\ \A b \in 1..(a - 1) : dispatched[b].id # dispatched[a].id

\* C34: when the run resolved, no download in the registry is the archive
\* of a mod of which the copy into the download folder failed.
C34_RegisteredOnlyIfCopied ==
    ipc = "resolved" =>
        \A k \in DOMAIN mods :
            archives[k] = "copyFailed" =>
                \A a \in store.downloads : a.file # mods[k].modFilename

(***************************************************************************)
(* Properties of the install names (SpecInstallName)                       *)
(***************************************************************************)
\* C28: the directory created for a mod under the install path is named by
\* the vortexId of its entry, and the mod is registered with that same name
\* as id and as installationPath, whatever the archive file name is.
C28_RegisteredUnderInstallName ==
    npc = "done" =>
        /\ join(installPath, res.vortexId) \in staged
        /\ registered = {[id |-> res.vortexId, installationPath |-> res.vortexId]}

(***************************************************************************)
(* Properties of the review step (SpecFinish)                              *)
(***************************************************************************)
\* the file name of an archive of the catalog that was installed as id
ArchiveOf(id) == id \o <<".", "z">>

\* C30: the setModEnabled actions dispatched by finish are for the selected
\* profile and for exactly the mods of the mod list of the game that belong
\* to one of the entries given; nothing is dispatched when the game has no
\* mod list, and no mod is enabled that is not among the entries.
C30_EnablesImportedModsOnly ==
    finishPc = "done" =>
        LET given == IF enableModsOnFinish THEN imported ELSE <<>>
        IN  /\ setModEnabled =
                  {[profileId |-> selectedProfile, modId |-> m.id] :
                      m \in {x \in store.mods :
                                \E e \in DOMAIN given :
                                    given[e].modFilename = ArchiveOf(x.id)}}
            /\ store.mods = {} => setModEnabled = {}
            /\ \A a \in setModEnabled :
                  \E e \in DOMAIN given : given[e].modFilename = ArchiveOf(a.modId)

\* a mod of the entries was enabled, while the mod list also holds a mod
\* that is not among the entries and an entry is not in the mod list
C30_Witness ==
    /\ finishPc = "done" /\ enableModsOnFinish
    /\ setModEnabled # {}
    /\ \E x \in store.mods :
          \A a \in setModEnabled : a.modId # x.id
    /\ \E e \in DOMAIN imported :
          \A x \in store.mods : ArchiveOf(x.id) # imported[e].modFilename

(***************************************************************************)
(* Properties of the import dialog (SpecDialog)                            *)
(***************************************************************************)
\* C19: when parsing the manifest failed, the wizard does not get past
\* 'setup' and no import is started.
C19_ManifestErrorAbortsRun ==
    (ppc = "settled" /\ outcome # "entries")
    => importStep \notin {"working", "review"} /\ importPc = "idle" /\ importCalls = 0

(***************************************************************************)
(* Properties of the mod table (SpecSelect)                                *)
(***************************************************************************)
\* C35: with the sizes calculated and every change committed, the required
\* size shown for the mod files is the sum of the sizes of exactly the mods
\* selected for import, after any toggles, group actions and archive toggles
C35_NeededBytesMatchSelection ==
    (importStep = "setup" /\ nextImportEnabled = importEnabled)
        => totalNeededBytes =
               SumBytes({id \in modsToImport.ids : isModEnabled(id)})

\* C36: a toggle of a mod flips whether it is selected for import, for
\* managed and new mods alike, also when the change before is not committed
C36_ToggleFlipsSelection ==
    [][(lastOp'.op = "toggle" /\ counter' # counter)
           => WillBeEnabled(nextImportEnabled', lastOp'.id)
                  # modWillBeEnabled(lastOp'.id)]_vars

(***************************************************************************)
(* Properties of the working step (SpecWork, SpecWorkFair)                 *)
(***************************************************************************)
\* C37: download watching that the dialog disabled at the start of an import
\* is enabled again, whether the import resolves or rejects, and it is
\* enabled in the step that shows the review or the error
C37_DownloadWatchRestored ==
    /\ [][((importStep' = "review" /\ importStep # "review")
             \/ (dError' # "undefined" /\ dError = "undefined"))
           => downloadWatch']_vars
    /\ (~downloadWatch ~> downloadWatch)

C37_Witness ==
    /\ dError = "import" /\ downloadWatch
    /\ LoopsAt("done") # {} /\ LoopsAt("import") = {}

\* C38: in the archive-import dialog at most one import process is in
\* progress at any time, whatever the wizard went through before
C38_AtMostOneImport ==
    dialogRev = "part_003" => Cardinality(LoopsAt("import")) <= 1

\* C39: auto-sorting that the archive-import dialog switched off on entering
\* the working step is eventually switched back on, also after a cancel
C39_AutosortRestored ==
    (/\ ~autosortPlugins
     /\ \E i \in DOMAIN loops :
           loops[i].autoSort /\ loops[i].stage \in {"check", "timer"})
        ~> autosortPlugins

====
